---- MODULE Spec2Model ----
(***************************************************************************)
(* A model of fast-formula-parser: the FormulaError singleton table, the   *)
(* operator algebra (operators.ts, helpers.ts), the reference operators    *)
(* and the precedence fold (utils.ts, parsing.ts), and the engine          *)
(* (FormulaParser in hooks.ts).                                            *)
(*                                                                         *)
(* JavaScript values are records tagged by t:                              *)
(*   "undefined", "null", "number" (n/d, a reduced fraction; d = 0 encodes *)
(*   NaN (n = 0) and +-Infinity (n = +-1)), "boolean", "string" (s, a      *)
(*   sequence of one-character strings), "error" (a FormulaError: code,    *)
(*   object identity id, msg), "jserror" (any other Error), "array" (a, a  *)
(*   sequence of rows), "ref" (an object with a ref field), "collection",  *)
(*   "object" (any other plain object).                                    *)
(***************************************************************************)
EXTENDS Integers, Sequences, FiniteSets, TLC

VARIABLES
    pc,         \* position of the caller: "start" before the call, "done" after it
    call,       \* the operation being called and its inputs
    res,        \* its outcome: [k |-> "return" | "throw", v |-> value]
    errorMap,   \* FormulaError.errorMap: code -> identity of the registered instance
    nextId,     \* identity the next allocated FormulaError object gets
    made,       \* the object the last `new FormulaError(...)` evaluated to
    logs,       \* FormulaParser.logs
    invoked,    \* the function invocations the last call made, in order: the
                \* name, the arguments received, whether the engine was passed first
    position,   \* FormulaParser.position: <<>> (undefined) or <<p>>
    async,      \* FormulaParser.async
    isTest      \* FormulaParser.isTest

vars == <<pc, call, res, errorMap, nextId, made, logs, invoked, position, async, isTest>>

----------------------------------------------------------------------------
(* Numbers *)

Abs(x) == IF x < 0 THEN -x ELSE x

Sign(x) == IF x < 0 THEN -1 ELSE IF x > 0 THEN 1 ELSE 0

RECURSIVE GCD(_, _)
GCD(a, b) == IF b = 0 THEN a ELSE GCD(b, a % b)

\* the number n/d for d # 0, reduced, with a positive denominator
Rat(n, d) ==
    LET g == GCD(Abs(n), Abs(d))
        s == IF d < 0 THEN -1 ELSE 1
    IN  [t |-> "number", n |-> (s * n) \div g, d |-> Abs(d) \div g]

Num(i) == [t |-> "number", n |-> i, d |-> 1]

NaN == [t |-> "number", n |-> 0, d |-> 0]

Infinity(sign) == [t |-> "number", n |-> sign, d |-> 0]

IsNumber(v) == v.t = "number"

IsNaN(v) == v.t = "number" /\ v.d = 0 /\ v.n = 0

IsFinite(v) == v.t = "number" /\ v.d # 0

\* IEEE addition on the encoded numbers
NumAdd(x, y) ==
    IF IsNaN(x) \/ IsNaN(y) THEN NaN
    ELSE IF x.d = 0 /\ y.d = 0 THEN (IF x.n = y.n THEN x ELSE NaN)
    ELSE IF x.d = 0 THEN x
    ELSE IF y.d = 0 THEN y
    ELSE Rat(x.n * y.d + y.n * x.d, x.d * y.d)

NumNeg(x) == [t |-> "number", n |-> -x.n, d |-> x.d]

NumSub(x, y) == NumAdd(x, NumNeg(y))

NumMul(x, y) ==
    IF IsNaN(x) \/ IsNaN(y) THEN NaN
    ELSE IF x.d = 0 \/ y.d = 0
         THEN (IF x.n = 0 \/ y.n = 0 THEN NaN ELSE Infinity(Sign(x.n) * Sign(y.n)))
    ELSE Rat(x.n * y.n, x.d * y.d)

\* IEEE division; 0 as divisor gives +-Infinity or NaN
NumDiv(x, y) ==
    IF IsNaN(x) \/ IsNaN(y) THEN NaN
    ELSE IF x.d = 0 /\ y.d = 0 THEN NaN
    ELSE IF x.d = 0 THEN Infinity(Sign(x.n) * (IF y.n < 0 THEN -1 ELSE 1))
    ELSE IF y.d = 0 THEN Num(0)
    ELSE IF y.n = 0 THEN (IF x.n = 0 THEN NaN ELSE Infinity(Sign(x.n)))
    ELSE Rat(x.n * y.d, x.d * y.n)

RECURSIVE IntPow(_, _)
IntPow(b, e) == IF e = 0 THEN 1 ELSE b * IntPow(b, e - 1)

\* the largest magnitude of a numerator or denominator the model computes a
\* power to; a power beyond it overflows to Infinity (underflows to 0), as a
\* double does beyond its own range
MaxPower == 1073741824

\* b^e * acc for b >= 2, or -1 once it exceeds MaxPower
RECURSIVE PowAcc(_, _, _)
PowAcc(b, e, acc) ==
    IF e = 0 THEN acc
    ELSE IF acc > MaxPower \div b THEN -1
    ELSE PowAcc(b, e - 1, acc * b)

\* |b|^e for an integer b and e >= 0, or -1 on overflow
AbsPow(b, e) ==
    IF e = 0 THEN 1
    ELSE IF b = 0 THEN 0
    ELSE IF Abs(b) = 1 THEN 1
    ELSE PowAcc(Abs(b), e, 1)

\* (n/d)^e for e >= 0
RatPow(n, d, e) ==
    LET sg == IF n < 0 /\ e % 2 = 1 THEN -1 ELSE 1
        pn == AbsPow(n, e)
        pd == AbsPow(d, e)
    IN  IF pn = -1 THEN Infinity(sg)
        ELSE IF pd = -1 THEN Num(0)
        ELSE Rat(sg * pn, pd)

\* Math.pow for a finite base and an integer exponent; every other pair of
\* operands (which the formulas of this model never raise) gives NaN
MathPow(x, y) ==
    IF ~IsFinite(x) \/ ~IsFinite(y) \/ y.d # 1 THEN NaN
    ELSE IF y.n >= 0 THEN RatPow(x.n, x.d, y.n)
    ELSE IF x.n = 0 THEN Infinity(1)
    ELSE RatPow(IF x.n < 0 THEN -x.d ELSE x.d, Abs(x.n), -y.n)

\* x < y on numbers (false as soon as one is NaN)
NumLess(x, y) ==
    IF IsNaN(x) \/ IsNaN(y) THEN FALSE
    ELSE IF x.d = 0 /\ y.d = 0 THEN x.n < y.n
    ELSE IF x.d = 0 THEN x.n < 0
    ELSE IF y.d = 0 THEN y.n > 0
    ELSE x.n * y.d < y.n * x.d

NumEq(x, y) == ~IsNaN(x) /\ ~IsNaN(y) /\ x = y

----------------------------------------------------------------------------
(* Strings: sequences of one-character strings *)

Digits == <<"0", "1", "2", "3", "4", "5", "6", "7", "8", "9">>

\* the characters of the model, in the order of their UTF-16 code units
AsciiOrder ==
    <<"!", "#", "+", "-", ".", "/">> \o Digits \o
    <<"?", "A", "D", "E", "F", "I", "L", "M", "N", "R", "S", "T", "U", "V",
      "a", "b", "c", "f", "i", "n", "t", "x", "y">>

CharCode(c) == CHOOSE i \in 1..Len(AsciiOrder) : AsciiOrder[i] = c

IsDigit(c) == \E i \in 1..10 : Digits[i] = c

DigitVal(c) == (CHOOSE i \in 1..10 : Digits[i] = c) - 1

Str(s) == [t |-> "string", s |-> s]

\* a < b on strings: lexicographic on the code units
RECURSIVE StrLess(_, _)
StrLess(a, b) ==
    IF b = <<>> THEN FALSE
    ELSE IF a = <<>> THEN TRUE
    ELSE IF Head(a) = Head(b) THEN StrLess(Tail(a), Tail(b))
    ELSE CharCode(Head(a)) < CharCode(Head(b))

RECURSIVE DigitsVal(_)
DigitsVal(s) ==
    IF s = <<>> THEN 0
    ELSE 10 * DigitsVal(SubSeq(s, 1, Len(s) - 1)) + DigitVal(s[Len(s)])

\* Number(s) for a string s: an optional sign, digits with at most one '.',
\* at least one digit; the empty string is 0; anything else is NaN.  (The
\* strings of the model hold no exponent, hexadecimal or blank characters.)
StrToNumber(s) ==
    LET signed == s # <<>> /\ s[1] \in {"+", "-"}
        body == IF signed THEN Tail(s) ELSE s
        dots == {i \in 1..Len(body) : body[i] = "."}
        dot == IF dots = {} THEN Len(body) + 1 ELSE CHOOSE i \in dots : TRUE
        int == SubSeq(body, 1, dot - 1)
        frac == SubSeq(body, dot + 1, Len(body))
        sg == IF signed /\ s[1] = "-" THEN -1 ELSE 1
    IN  IF s = <<>> THEN Num(0)
        ELSE IF Cardinality(dots) > 1 THEN NaN
        ELSE IF Len(int) + Len(frac) = 0 THEN NaN
        ELSE IF \E i \in 1..Len(int) : ~IsDigit(int[i]) THEN NaN
        ELSE IF \E i \in 1..Len(frac) : ~IsDigit(frac[i]) THEN NaN
        ELSE Rat(sg * (DigitsVal(int) * IntPow(10, Len(frac)) + DigitsVal(frac)),
                 IntPow(10, Len(frac)))

RECURSIVE NatToStr(_)
NatToStr(n) ==
    IF n < 10 THEN <<Digits[n + 1]>>
    ELSE NatToStr(n \div 10) \o <<Digits[(n % 10) + 1]>>

\* the fraction digits of r/d (0 <= r < d), at most k of them
RECURSIVE FracToStr(_, _, _)
FracToStr(r, d, k) ==
    IF r = 0 \/ k = 0 THEN <<>>
    ELSE <<Digits[((r * 10) \div d) + 1]>> \o FracToStr((r * 10) % d, d, k - 1)

\* how many fraction digits a number is printed with, at most
MaxFracDigits == 6

\* '' + x for a number x
NumberToString(x) ==
    IF IsNaN(x) THEN <<"N", "a", "N">>
    ELSE IF x.d = 0
         THEN (IF x.n < 0 THEN <<"-">> ELSE <<>>) \o
              <<"I", "n", "f", "i", "n", "i", "t", "y">>
    ELSE LET a == Abs(x.n)
             whole == NatToStr(a \div x.d)
             frac == FracToStr(a % x.d, x.d, MaxFracDigits)
         IN  (IF x.n < 0 THEN <<"-">> ELSE <<>>) \o whole \o
             (IF frac = <<>> THEN <<>> ELSE <<".">> \o frac)

----------------------------------------------------------------------------
(* Other values *)

Undefined == [t |-> "undefined"]

Null == [t |-> "null"]

Bool(b) == [t |-> "boolean", b |-> b]

Arr(rows) == [t |-> "array", a |-> rows]

\* typeof v
TypeOf(v) ==
    IF v.t \in {"number", "boolean", "string", "undefined"} THEN v.t ELSE "object"

\* v == null
IsNullish(v) == v.t \in {"null", "undefined"}

IsArray(v) == v.t = "array"

\* an outcome of a call: a returned value or a thrown one
Return(v) == [k |-> "return", v |-> v]

Throw(e) == [k |-> "throw", v |-> e]

\* new Error(msg), Error(msg)
JsError(msg) == [t |-> "jserror", msg |-> msg]

\* a settled promise: fulfilled with out.v (out.k = "return") or rejected with
\* it (out.k = "throw")
Promise(out) == [t |-> "promise", out |-> out]

IsPromise(v) == v.t = "promise"

\* await v: the value of anything that is no promise; of a promise, the value
\* it is fulfilled with, or the reason it is rejected with, thrown
Await(v) == IF IsPromise(v) THEN v.out ELSE Return(v)

----------------------------------------------------------------------------
(* FormulaError (formulas/error.ts) *)

NoMsg == "undefined"

\* the codes of the static instances, in the order the class creates them
StaticCodes == <<"#DIV/0!", "#N/A", "#NAME?", "#NULL!", "#NUM!", "#REF!", "#VALUE!">>

\* a FormulaError object: its code (_error), its identity and its message
ErrObj(code, id, msg) == [t |-> "error", code |-> code, id |-> id, msg |-> msg]

\* the static instance FormulaError.DIV0, .NA, .NAME, .NULL, .NUM, .REF, .VALUE
StaticError(code) ==
    ErrObj(code, CHOOSE i \in 1..Len(StaticCodes) : StaticCodes[i] = code, NoMsg)

DIV0 == StaticError("#DIV/0!")
NA == StaticError("#N/A")
NAME == StaticError("#NAME?")
NULL == StaticError("#NULL!")
NUM == StaticError("#NUM!")
REF == StaticError("#REF!")
VALUE == StaticError("#VALUE!")

\* errorMap once the class is loaded
StaticErrorMap == [c \in {StaticCodes[i] : i \in 1..Len(StaticCodes)} |-> StaticError(c)]

\* identity of the first object allocated after the class is loaded
FirstFreeId == Len(StaticCodes) + 1

\* the constructor's decision to hand out the registered instance
ReturnsRegistered_Never(map, code, plain) == FALSE

ReturnsRegistered(map, code, plain) == plain /\ code \in DOMAIN map

\* new FormulaError(error, msg, details) with `this` allocated as object `fresh`
\* and the table being `map`: the object the expression evaluates to, and the
\* table afterwards.  hasMsg / hasDetails: the argument is not null or undefined.
FormulaErrorNew(map, fresh, code, hasMsg, msg, hasDetails) ==
    LET plain == ~hasMsg /\ ~hasDetails
        this == ErrObj(code, fresh, IF hasMsg THEN msg ELSE NoMsg)
    IN  IF ReturnsRegistered(map, code, plain)
        THEN [obj |-> map[code], map |-> map]
        ELSE IF plain
        THEN [obj |-> this,
              map |-> [c \in DOMAIN map \cup {code} |-> IF c = code THEN this ELSE map[c]]]
        ELSE [obj |-> this, map |-> map]

\* err instanceof FormulaError
IsFormulaError(v) == v.t = "error"

\* a.equals(b)
ErrEquals(a, b) == IsFormulaError(b) /\ b.code = a.code

\* an error object that is not a registered instance: FormulaError.ERROR(msg),
\* NOT_IMPLEMENTED(name) and the like, allocated outside the modelled table
FreshId == 0

\* FormulaError.ERROR(msg, details)
ERROR(msg) == ErrObj("#ERROR!", FreshId, msg)

\* FormulaError.NOT_IMPLEMENTED(functionName)
NOT_IMPLEMENTED(name) == ErrObj("#NAME?", FreshId, "Function " \o name \o " is not implemented.")

----------------------------------------------------------------------------
(* FormulaHelpers.acceptNumber (formulas/helpers.ts) *)

\* acceptNumber(obj, isArray, allowBoolean) on a value that is not an array
AcceptScalarNumber(obj, allowBoolean) ==
    IF IsFormulaError(obj) THEN Return(obj)
    ELSE IF obj.t = "number" THEN Return(obj)
    ELSE IF obj.t = "boolean"
         THEN (IF allowBoolean THEN Return(Num(IF obj.b THEN 1 ELSE 0)) ELSE Throw(VALUE))
    ELSE IF obj.t = "string"
         THEN (IF Len(obj.s) = 0 THEN Throw(VALUE)
               ELSE IF IsNaN(StrToNumber(obj.s)) THEN Throw(VALUE)
               ELSE Return(StrToNumber(obj.s)))
    ELSE Throw(JsError("Unknown type in FormulaHelpers.acceptNumber"))

\* acceptNumber(obj, isArray = true, allowBoolean = true); the inner call on
\* obj[0][0] takes the defaults (obj[0][0] of an Array2D is never an array)
AcceptNumber(obj, isArray, allowBoolean) ==
    IF IsFormulaError(obj) THEN Return(obj)
    ELSE IF IsArray(obj)
         THEN (IF ~isArray /\ Len(obj.a[1]) # 1 THEN Throw(VALUE)
               ELSE AcceptScalarNumber(obj.a[1][1], TRUE))
    ELSE AcceptScalarNumber(obj, allowBoolean)

----------------------------------------------------------------------------
(* Operators (formulas/operators.ts) *)

CompareOps == {"<", ">", "=", "<>", "<=", ">="}
ConcatOps == {"&"}
MathOps == {"+", "-", "*", "/", "^"}

\* type2Number: the rank of a primitive type in a comparison of different
\* types; <<>> (undefined) for every other type
Type2Number_TextLowest(type) ==
    CASE type = "boolean" -> <<3>>
      [] type = "string" -> <<1>>
      [] type = "number" -> <<2>>
      [] OTHER -> <<>>

Type2Number(type) ==
    CASE type = "boolean" -> <<3>>
      [] type = "string" -> <<2>>
      [] type = "number" -> <<1>>
      [] OTHER -> <<>>

\* a < b on two optional numbers: false as soon as one is undefined
OptLess(a, b) == a # <<>> /\ b # <<>> /\ a[1] < b[1]

OptLessEq(a, b) == a # <<>> /\ b # <<>> /\ a[1] <= b[1]

\* v1 < v2 for two values of the same typeof (JavaScript's relational
\* comparison; of two objects: not modelled, false)
SameTypeLess(v1, v2) ==
    CASE v1.t = "number" /\ v2.t = "number" -> NumLess(v1, v2)
      [] v1.t = "string" /\ v2.t = "string" -> StrLess(v1.s, v2.s)
      [] v1.t = "boolean" /\ v2.t = "boolean" -> ~v1.b /\ v2.b
      [] OTHER -> FALSE

\* v1 === v2: two objects are the same object only (the arrays and objects
\* that reach a comparison are distinct objects)
StrictEq(v1, v2) ==
    IF v1.t = "number" /\ v2.t = "number" THEN NumEq(v1, v2)
    ELSE IF v1.t \in {"string", "boolean", "undefined", "null"} THEN v1 = v2
    ELSE FALSE

\* the comparison of two operands of different types: by type rank only
CrossTypeCompare(type1, infix, type2) ==
    CASE infix = "=" -> FALSE
      [] infix = ">" -> OptLess(Type2Number(type2), Type2Number(type1))
      [] infix = "<" -> OptLess(Type2Number(type1), Type2Number(type2))
      [] infix = "<>" -> TRUE
      [] infix = "<=" -> OptLessEq(Type2Number(type1), Type2Number(type2))
      [] infix = ">=" -> OptLessEq(Type2Number(type2), Type2Number(type1))

\* Infix.compareOp(value1, infix, value2, isArray1, isArray2)
CompareOp(value1, infix, value2, isArray1, isArray2) ==
    LET n1 == IF IsNullish(value1) THEN Num(0) ELSE value1
        n2 == IF IsNullish(value2) THEN Num(0) ELSE value2
        v1 == IF isArray1 THEN n1.a[1][1] ELSE n1
        v2 == IF isArray2 THEN n2.a[1][1] ELSE n2
        type1 == TypeOf(v1)
        type2 == TypeOf(v2)
    IN  IF infix \notin CompareOps THEN Throw(JsError("Infix.compareOp: Should not reach here."))
        ELSE IF type1 = type2
        THEN Return(Bool(
               CASE infix = "=" -> StrictEq(v1, v2)
                 [] infix = ">" -> SameTypeLess(v2, v1)
                 [] infix = "<" -> SameTypeLess(v1, v2)
                 [] infix = "<>" -> ~StrictEq(v1, v2)
                 [] infix = "<=" -> SameTypeLess(v1, v2) \/ StrictEq(v1, v2)
                 [] infix = ">=" -> SameTypeLess(v2, v1) \/ StrictEq(v1, v2)))
        ELSE Return(Bool(CrossTypeCompare(type1, infix, type2)))

\* '' + v for the values that reach concatOp
ToStringJs(v) ==
    CASE v.t = "string" -> v.s
      [] v.t = "number" -> NumberToString(v)
      [] v.t = "boolean" -> IF v.b THEN <<"T", "R", "U", "E">> ELSE <<"F", "A", "L", "S", "E">>
      [] OTHER -> <<"?">>

\* Infix.concatOp(value1, infix, value2, isArray1, isArray2)
ConcatOp(value1, infix, value2, isArray1, isArray2) ==
    LET e1 == IF IsNullish(value1) THEN Str(<<>>) ELSE value1
        e2 == IF IsNullish(value2) THEN Str(<<>>) ELSE value2
        v1 == IF isArray1 THEN e1.a[1][1] ELSE e1
        v2 == IF isArray2 THEN e2.a[1][1] ELSE e2
    IN  Return(Str(ToStringJs(v1) \o ToStringJs(v2)))

\* Infix.mathOp(value1, infix, value2, isArray1, isArray2)
MathOp(value1, infix, value2, isArray1, isArray2) ==
    LET Calc(a1, a2) ==
            IF a1.k = "throw" THEN (IF IsFormulaError(a1.v) THEN Return(a1.v) ELSE a1)
            ELSE IF a2.k = "throw" THEN (IF IsFormulaError(a2.v) THEN Return(a2.v) ELSE a2)
            ELSE CASE infix = "+" -> Return(NumAdd(a1.v, a2.v))
                   [] infix = "-" -> Return(NumSub(a1.v, a2.v))
                   [] infix = "*" -> Return(NumMul(a1.v, a2.v))
                   [] infix = "/" -> IF a2.v = Num(0) THEN Return(DIV0)
                                     ELSE Return(NumDiv(a1.v, a2.v))
                   [] infix = "^" -> Return(MathPow(a1.v, a2.v))
                   [] OTHER -> Throw(JsError("Infix.mathOp: Should not reach here."))
    IN  Calc(AcceptNumber(IF IsNullish(value1) THEN Num(0) ELSE value1, isArray1, TRUE),
             AcceptNumber(IF IsNullish(value2) THEN Num(0) ELSE value2, isArray2, TRUE))

----------------------------------------------------------------------------
(* References and the host (grammar/hooks.ts, grammar/utils.ts) *)

MAX_ROW == 1048576
MAX_COLUMN == 16384

\* an absent sheet property
NoSheet == "undefined"

\* An optional number is <<>> (undefined) or <<n>>.
Some(n) == <<n>>
None == <<>>
IsSome(o) == o # <<>>

\* the ref of a cell reference {sheet?, row, col}; row or col may be undefined
\* (a whole column, a whole row)
CellRef(sheet, row, col) ==
    [sheet |-> sheet, row |-> row, col |-> col, from |-> None, to |-> None]

\* the ref of a range reference {sheet?, from: {row, col}, to: {row, col}}
RangeRef(sheet, fromRow, fromCol, toRow, toCol) ==
    [sheet |-> sheet, row |-> None, col |-> None,
     from |-> <<[row |-> fromRow, col |-> fromCol]>>,
     to |-> <<[row |-> toRow, col |-> toCol]>>]

\* the object {ref: r}
RefObj(r) == [t |-> "ref", ref |-> r]

Cell(sheet, row, col) == RefObj(CellRef(sheet, Some(row), Some(col)))

Range(sheet, fromRow, fromCol, toRow, toCol) ==
    RefObj(RangeRef(sheet, fromRow, fromCol, toRow, toCol))

\* obj.ref is truthy
HasRef(v) == v.t = "ref"

\* H.isRangeRef(param): param.ref && param.ref.from
IsRangeRef(v) == HasRef(v) /\ IsSome(v.ref.from)

\* H.isCellRef(param): param.ref && !param.ref.from
IsCellRef(v) == HasRef(v) /\ ~IsSome(v.ref.from)

\* The host's workbook: the sheets it knows and the rows and columns it holds
\* values for.  onCell and onRange are the host's callbacks; this host gives
\* every cell a value that tells its sheet, row and column apart.
HostSheets == <<"Sheet1", "Sheet2">>
HostRows == 4
HostCols == 4

SheetNo(sheet) ==
    IF \E i \in 1..Len(HostSheets) : HostSheets[i] = sheet
    THEN CHOOSE i \in 1..Len(HostSheets) : HostSheets[i] = sheet
    ELSE 0

\* onCell(ref); the last cell the host holds has the value #N/A
OnCell(ref) ==
    LET row == IF IsSome(ref.row) THEN ref.row[1] ELSE 0
        col == IF IsSome(ref.col) THEN ref.col[1] ELSE 0
    IN  IF row = HostRows /\ col = HostCols THEN NA
        ELSE Num(1000 * SheetNo(ref.sheet) + 10 * (row % 100) + (col % 10))

Min(a, b) == IF a < b THEN a ELSE b
Max(a, b) == IF a > b THEN a ELSE b

\* onRange(ref): the values of the range's cells, as far as the host holds rows
\* and columns (one row and one column at least)
OnRange(ref) ==
    LET f == ref.from[1]
        t == ref.to[1]
        rows == Max(1, Min(t.row, f.row + HostRows - 1) - f.row + 1)
        cols == Max(1, Min(t.col, f.col + HostCols - 1) - f.col + 1)
    IN  Arr([i \in 1..rows |->
              [j \in 1..cols |->
                 OnCell(CellRef(ref.sheet, Some(f.row + i - 1), Some(f.col + j - 1)))]])

\* the FormulaParser fields an evaluation reads: this.position (<<>> when
\* parse was given none, <<p>> otherwise), this.async, this.isTest
Context(pos, asyncMode, testMode) ==
    [position |-> pos, async |-> asyncMode, isTest |-> testMode]

\* the ref as getCell / getRange hand it to the host: a ref without a sheet
\* gets position.sheet
WithPositionSheet(ref, pos) ==
    IF ref.sheet = NoSheet /\ pos # <<>>
    THEN [ref EXCEPT !.sheet = pos[1].sheet]
    ELSE ref

\* FormulaParser.getCell(ref)
GetCell(ref, context) == OnCell(WithPositionSheet(ref, context.position))

\* FormulaParser.getRange(ref)
GetRange(ref, context) == OnRange(WithPositionSheet(ref, context.position))

\* FormulaParser.retrieveRef(valueOrRef)
RetrieveRef(valueOrRef, context) ==
    IF IsRangeRef(valueOrRef) THEN GetRange(valueOrRef.ref, context)
    ELSE IF IsCellRef(valueOrRef) THEN GetCell(valueOrRef.ref, context)
    ELSE valueOrRef

\* Utils.extractRefValue(obj): {val, isArray}
ExtractRefValue(obj, context) ==
    IF HasRef(obj)
    THEN [val |-> RetrieveRef(obj, context), isArray |-> FALSE]
    ELSE [val |-> obj, isArray |-> IsArray(obj)]

----------------------------------------------------------------------------
(* Prefix and postfix operators (formulas/operators.ts) *)

\* the sign a list of prefixes folds into
RECURSIVE PrefixSign(_)
PrefixSign(prefixes) ==
    IF prefixes = <<>> THEN 1
    ELSE IF Head(prefixes) = "-" THEN -PrefixSign(Tail(prefixes))
    ELSE PrefixSign(Tail(prefixes))

\* -value for the values that reach the last line of unaryOp
NegateJs(v) ==
    CASE v.t = "number" -> NumNeg(v)
      [] v.t = "boolean" -> Num(IF v.b THEN -1 ELSE 0)
      [] v.t = "string" -> NumNeg(StrToNumber(v.s))
      [] OTHER -> NaN

\* Prefix.unaryOp(prefixes, value, isArray)
UnaryOp(prefixes, value, isArray) ==
    LET Negated(v1) == IF IsNaN(v1) THEN Return(VALUE) ELSE Return(NegateJs(v1))
        Signed(v0, acc) ==
            IF \E i \in 1..Len(prefixes) : prefixes[i] \notin {"+", "-"}
            THEN Throw(JsError("Unrecognized prefix"))
            ELSE IF PrefixSign(prefixes) = 1 THEN Return(v0)
            ELSE IF acc.k = "throw" /\ ~IsFormulaError(acc.v) THEN acc
            ELSE Negated(IF acc.k = "return" THEN acc.v
                         ELSE IF IsArray(v0) THEN v0.a[1][1] ELSE v0)
        Accepted(v0) == Signed(v0, AcceptNumber(v0, isArray, TRUE))
    IN  Accepted(IF IsNullish(value) THEN Num(0) ELSE value)

\* Postfix.percentOp(value, postfix, isArray)
PercentOp(value, postfix, isArray) ==
    LET Calc(acc) ==
            IF acc.k = "throw" THEN (IF IsFormulaError(acc.v) THEN Return(acc.v) ELSE acc)
            ELSE IF postfix = "%" THEN Return(NumDiv(acc.v, Num(100)))
            ELSE Throw(JsError("Unrecognized postfix"))
    IN  Calc(AcceptNumber(value, isArray, TRUE))

----------------------------------------------------------------------------
(* Utils.applyPrefix, applyPostfix, applyInfix (grammar/utils.ts), sync mode *)

\* Utils._applyPrefix(prefixes, val, isArray)
ApplyPrefixCore(prefixes, val, isArray) ==
    IF IsFormulaError(val) THEN Return(val) ELSE UnaryOp(prefixes, val, isArray)

\* this._applyPrefix(prefixes, val, isArray) on the {val, isArray} of extractRefValue
ApplyPrefixTo(prefixes, r) == ApplyPrefixCore(prefixes, r.val, r.isArray)

\* Utils.applyPrefixAsync(prefixes, value): the promise it returns
ApplyPrefixAsync(prefixes, value, context) ==
    IF Await(value).k = "throw" THEN Promise(Await(value))
    ELSE Promise(ApplyPrefixTo(prefixes, ExtractRefValue(Await(value).v, context)))

\* Utils.applyPrefix(prefixes, value)
ApplyPrefix(prefixes, value, context) ==
    IF context.async THEN Return(ApplyPrefixAsync(prefixes, value, context))
    ELSE ApplyPrefixTo(prefixes, ExtractRefValue(value, context))

\* Utils._applyPostfix(val, isArray, postfix)
ApplyPostfixCore(val, isArray, postfix) ==
    IF IsFormulaError(val) THEN Return(val) ELSE PercentOp(val, postfix, isArray)

\* this._applyPostfix(val, isArray, postfix) on the {val, isArray} of extractRefValue
ApplyPostfixTo(r, postfix) == ApplyPostfixCore(r.val, r.isArray, postfix)

\* Utils.applyPostfixAsync(value, postfix): the promise it returns
ApplyPostfixAsync(value, postfix, context) ==
    IF Await(value).k = "throw" THEN Promise(Await(value))
    ELSE Promise(ApplyPostfixTo(ExtractRefValue(Await(value).v, context), postfix))

\* Utils.applyPostfix(value, postfix)
ApplyPostfix(value, postfix, context) ==
    IF context.async THEN Return(ApplyPostfixAsync(value, postfix, context))
    ELSE ApplyPostfixTo(ExtractRefValue(value, context), postfix)

\* the operator an infix dispatches to, once neither operand is an error
InfixDispatch(res1, infix, res2) ==
    IF infix \in CompareOps
    THEN CompareOp(res1.val, infix, res2.val, res1.isArray, res2.isArray)
    ELSE IF infix \in ConcatOps
    THEN ConcatOp(res1.val, infix, res2.val, res1.isArray, res2.isArray)
    ELSE IF infix \in MathOps
    THEN MathOp(res1.val, infix, res2.val, res1.isArray, res2.isArray)
    ELSE Throw(JsError("Unrecognized infix"))

\* Utils._applyInfix(res1, infix, res2) with the second operand's error checked first
ApplyInfixCore_SecondFirst(res1, infix, res2) ==
    IF IsFormulaError(res2.val) THEN Return(res2.val)
    ELSE IF IsFormulaError(res1.val) THEN Return(res1.val)
    ELSE InfixDispatch(res1, infix, res2)

\* Utils._applyInfix(res1, infix, res2)
ApplyInfixCore(res1, infix, res2) ==
    IF IsFormulaError(res1.val) THEN Return(res1.val)
    ELSE IF IsFormulaError(res2.val) THEN Return(res2.val)
    ELSE InfixDispatch(res1, infix, res2)

\* Utils.applyInfixAsync(value1, infix, value2): the promise it returns
ApplyInfixAsync(value1, infix, value2, context) ==
    IF Await(value1).k = "throw" THEN Promise(Await(value1))
    ELSE IF Await(value2).k = "throw" THEN Promise(Await(value2))
    ELSE Promise(ApplyInfixCore(ExtractRefValue(Await(value1).v, context), infix,
                                ExtractRefValue(Await(value2).v, context)))

\* Utils.applyInfix(value1, infix, value2)
ApplyInfix(value1, infix, value2, context) ==
    IF context.async THEN Return(ApplyInfixAsync(value1, infix, value2, context))
    ELSE ApplyInfixCore(ExtractRefValue(value1, context), infix,
                        ExtractRefValue(value2, context))

----------------------------------------------------------------------------
(* Parser.formulaWithBinaryOp, formulaWithPercentOp, formulaWithUnaryOp      *)
(* (grammar/parsing.ts)                                                     *)

\* binaryOperatorsPrecedence with '&' folded before '+' and '-'
BinaryOperatorsPrecedence_ConcatEarly ==
    <<{"^"}, {"*", "/"}, {"&"}, {"+", "-"}, {"<", ">", "=", "<>", "<=", ">="}>>

\* this.binaryOperatorsPrecedence
BinaryOperatorsPrecedence ==
    <<{"^"}, {"*", "/"}, {"+", "-"}, {"&"}, {"<", ">", "=", "<>", "<=", ">="}>>

\* array.splice(index, count, item...) on a sequence, index counted from 1
Splice(seq, index, count, items) ==
    SubSeq(seq, 1, index - 1) \o items \o SubSeq(seq, index + count, Len(seq))

\* the state of the fold: the values and infixes left, and what was thrown
FoldState(values, infixes, thrown) ==
    [values |-> values, infixes |-> infixes, thrown |-> thrown]

\* where the inner loop goes on after folding the infix at `index`: index-- and
\* the loop's index++ leave it at the same place
NextIndexAfterFold(index) == index

\* one round of the inner loop of the fold for one precedence level, at `index`
RECURSIVE FoldLevel(_, _, _, _)
FoldLevelStep(st, ops, index, context) ==
    IF st.thrown # <<>> \/ index > Len(st.infixes) THEN st
    ELSE IF st.infixes[index] \notin ops THEN FoldLevel(st, ops, index + 1, context)
    ELSE LET Folded(r) ==
                 IF r.k = "throw" THEN FoldState(st.values, st.infixes, <<r.v>>)
                 ELSE FoldLevel(FoldState(Splice(st.values, index, 2, <<r.v>>),
                                          Splice(st.infixes, index, 1, <<>>), <<>>),
                                ops, NextIndexAfterFold(index), context)
         IN  Folded(ApplyInfix(st.values[index], st.infixes[index],
                               st.values[index + 1], context))

\* the inner loop from `index` on
FoldLevel(st, ops, index, context) == FoldLevelStep(st, ops, index, context)

\* the outer loop: the precedence levels from `level` on
RECURSIVE FoldFrom(_, _, _)
FoldFrom(st, level, context) ==
    IF level > Len(BinaryOperatorsPrecedence) THEN st
    ELSE FoldFrom(FoldLevel(st, BinaryOperatorsPrecedence[level], 1, context),
                  level + 1, context)

\* the $.ACTION of formulaWithBinaryOp on the collected values and infixes
FoldBinary(values, infixes, context) ==
    FoldFrom(FoldState(values, infixes, <<>>), 1, context)

\* formulaWithUnaryOp: the prefixes applied to the operand below them
FormulaWithUnaryOp(prefixes, formula, context) ==
    IF Len(prefixes) > 0 THEN ApplyPrefix(prefixes, formula, context)
    ELSE Return(formula)

\* formulaWithPercentOp: an operand [prefixes, atom, percent] of a binary formula
FormulaWithPercentOp(operand, context) ==
    LET Percent(u) == IF u.k = "throw" \/ ~operand.percent THEN u
                      ELSE ApplyPostfix(u.v, "%", context)
    IN  Percent(FormulaWithUnaryOp(operand.prefixes, operand.atom, context))

\* the operands of a binary formula, evaluated left to right: the values, or
\* the first exception
RECURSIVE OperandValues(_, _)
OperandValues(operands, context) ==
    IF operands = <<>> THEN FoldState(<<>>, <<>>, <<>>)
    ELSE LET Collected(v, rest) ==
                 IF v.k = "throw" THEN FoldState(<<>>, <<>>, <<v.v>>)
                 ELSE IF rest.thrown # <<>> THEN rest
                 ELSE FoldState(<<v.v>> \o rest.values, <<>>, <<>>)
         IN  Collected(FormulaWithPercentOp(Head(operands), context),
                       OperandValues(Tail(operands), context))

\* formulaWithBinaryOp on operands o1 .. on+1 and infixes i1 .. in: the fold's
\* final state (the rule returns values[0])
FormulaWithBinaryOp(operands, infixes, context) ==
    LET Action(vals) == IF vals.thrown # <<>> THEN vals
                        ELSE FoldBinary(vals.values, infixes, context)
    IN  Action(OperandValues(operands, context))

\* what the rule hands to its caller
RuleOutcome(st) == IF st.thrown # <<>> THEN Throw(st.thrown[1]) ELSE Return(st.values[1])

----------------------------------------------------------------------------
(* Reference operators: Utils.applyIntersect, applyRange, parseRow, parseCol *)
(* (grammar/utils.ts)                                                        *)

\* Utils.parseRow(row) for an integer row: {ref: {col: undefined, row}}
ParseRow(row) == RefObj(CellRef(NoSheet, Some(row), None))

\* Utils.parseCol(col) for a column number: {ref: {col, row: undefined}}
ParseCol(col) == RefObj(CellRef(NoSheet, None, Some(col)))

\* a rectangle of cells
Box(minRow, maxRow, minCol, maxCol) ==
    [minRow |-> minRow, maxRow |-> maxRow, minCol |-> minCol, maxCol |-> maxCol]

\* the rectangle applyIntersect reads from a cell or range ref
RefBox(ref) ==
    IF IsSome(ref.from)
    THEN Box(Min(ref.from[1].row, ref.to[1].row), Max(ref.from[1].row, ref.to[1].row),
             Min(ref.from[1].col, ref.to[1].col), Max(ref.from[1].col, ref.to[1].col))
    ELSE Box(ref.row[1], ref.row[1], ref.col[1], ref.col[1])

\* !ref.from && (ref.row === undefined || ref.col === undefined)
IsWholeRowOrCol(ref) == ~IsSome(ref.from) /\ (ref.row = None \/ ref.col = None)

\* the reference a reference operator returns for a rectangle: a cell ref when
\* it is one cell, a range ref otherwise
BoxRef(sheet, b) ==
    IF b.maxRow = b.minRow /\ b.maxCol = b.minCol
    THEN Cell(sheet, b.maxRow, b.maxCol)
    ELSE Range(sheet, b.minRow, b.minCol, b.maxRow, b.maxCol)

\* the test without its comparison of the sheets
MissesBox_IgnoresSheet(b, sheet, rb, refSheet) ==
    \/ rb.minRow > b.maxRow \/ rb.maxRow < b.minRow
    \/ rb.minCol > b.maxCol \/ rb.maxCol < b.minCol

\* the test that sets err = FormulaError.NULL for the rectangle rb of a ref on
\* sheet refSheet, against the running box b of sheet `sheet`
MissesBox(b, sheet, rb, refSheet) ==
    \/ rb.minRow > b.maxRow \/ rb.maxRow < b.minRow
    \/ rb.minCol > b.maxCol \/ rb.maxCol < b.minCol
    \/ sheet # refSheet

\* the running box after a ref that is a range: the overlap; after a cell: the cell
NextBox(b, ref) ==
    IF IsSome(ref.from)
    THEN Box(Max(b.minRow, RefBox(ref).minRow), Min(b.maxRow, RefBox(ref).maxRow),
             Max(b.minCol, RefBox(ref).minCol), Min(b.maxCol, RefBox(ref).maxCol))
    ELSE RefBox(ref)

\* one round of refs.forEach in applyIntersect on the state
\* [box, sheet, err, thrown]
IntersectStep(st, item) ==
    IF st.thrown # <<>> \/ IsFormulaError(item) THEN st
    ELSE IF ~HasRef(item)
    THEN [st EXCEPT !.thrown = <<JsError("Expecting a reference, but got undefined.")>>]
    ELSE IF IsWholeRowOrCol(item.ref)
    THEN [st EXCEPT !.thrown = <<JsError("Cannot intersect the whole row or column.")>>]
    ELSE [st EXCEPT !.err = st.err \/ MissesBox(st.box, st.sheet, RefBox(item.ref), item.ref.sheet),
                    !.box = NextBox(st.box, item.ref)]

\* refs.forEach(...) from the i-th ref on
RECURSIVE IntersectFrom(_, _, _)
IntersectFrom(st, refs, i) ==
    IF i > Len(refs) THEN st
    ELSE CHOOSE out \in {IntersectFrom(s, refs, i + 1) : s \in {IntersectStep(st, refs[i])}} : TRUE

\* Utils.applyIntersect(refs)
ApplyIntersect(refs) ==
    IF IsFormulaError(refs[1]) THEN Return(refs[1])
    ELSE IF ~HasRef(refs[1])
    THEN Throw(JsError(<<"Expecting a reference, but got ", ToStringJs(refs[1]), ".">>))
    ELSE IF IsWholeRowOrCol(refs[1].ref)
    THEN Throw(JsError("Cannot intersect the whole row or column."))
    ELSE CHOOSE out \in
           {IF st.thrown # <<>> THEN Throw(st.thrown[1])
            ELSE IF st.err THEN Return(NULL)
            ELSE Return(BoxRef(st.sheet, st.box)) :
              st \in {IntersectFrom([box |-> RefBox(refs[1].ref), sheet |-> refs[1].ref.sheet,
                                     err |-> FALSE, thrown |-> <<>>], refs, 2)}} : TRUE

\* the rows of the running box after a ref with an undefined row: all the rows
RowsAfterWhole(b) == [b EXCEPT !.minRow = 1, !.maxRow = MAX_ROW]

ColsAfterWhole(b) == [b EXCEPT !.minCol = 1, !.maxCol = MAX_COLUMN]

\* the four comparisons of applyRange against ref.row and ref.col (a
\* comparison with undefined is false)
Widen(b, ref) ==
    LET maxRow == IF IsSome(ref.row) /\ ref.row[1] > b.maxRow THEN ref.row[1] ELSE b.maxRow
        minRow == IF IsSome(ref.row) /\ ref.row[1] < b.minRow THEN ref.row[1] ELSE b.minRow
        maxCol == IF IsSome(ref.col) /\ ref.col[1] > b.maxCol THEN ref.col[1] ELSE b.maxCol
        minCol == IF IsSome(ref.col) /\ ref.col[1] < b.minCol THEN ref.col[1] ELSE b.minCol
    IN  Box(minRow, maxRow, minCol, maxCol)

\* one round of refs.forEach in applyRange on the state [box, thrown]
RangeStep(st, item) ==
    IF st.thrown # <<>> \/ IsFormulaError(item) THEN st
    ELSE LET obj == IF item.t = "number" THEN ParseRow(item.n) ELSE item
         IN  IF item.t = "number" /\ item.d # 1
             THEN [st EXCEPT !.thrown = <<JsError("Row number must be integer.")>>]
             ELSE IF ~HasRef(obj)
             THEN [st EXCEPT !.thrown =
                      <<JsError("Cannot read properties of undefined (reading 'row')")>>]
             ELSE LET b1 == IF obj.ref.row = None THEN RowsAfterWhole(st.box) ELSE st.box
                      b2 == IF obj.ref.col = None THEN ColsAfterWhole(b1) ELSE b1
                  IN  [st EXCEPT !.box = Widen(b2, obj.ref)]

\* refs.forEach(...) from the i-th ref on
RECURSIVE RangeFrom(_, _, _)
RangeFrom(st, refs, i) ==
    IF i > Len(refs) THEN st
    ELSE CHOOSE out \in {RangeFrom(s, refs, i + 1) : s \in {RangeStep(st, refs[i])}} : TRUE

\* Utils.applyRange(refs): the result carries no sheet
ApplyRange(refs) ==
    CHOOSE out \in
      {IF st.thrown # <<>> THEN Throw(st.thrown[1])
       ELSE Return(BoxRef(NoSheet, st.box)) :
         st \in {RangeFrom([box |-> Box(MAX_ROW + 1, -1, MAX_COLUMN + 1, -1),
                            thrown |-> <<>>], refs, 1)}} : TRUE

----------------------------------------------------------------------------
(* Utils converters and applyUnion (grammar/utils.ts), Collection            *)
(* (grammar/type/collection.ts)                                             *)

Letters ==
    <<"A", "B", "C", "D", "E", "F", "G", "H", "I", "J", "K", "L", "M",
      "N", "O", "P", "Q", "R", "S", "T", "U", "V", "W", "X", "Y", "Z">>

\* columnName.charCodeAt(i) - 64 for an upper-case letter
LetterNo(c) == CHOOSE i \in 1..Len(Letters) : Letters[i] = c

\* Address.columnNameToNumber on a name of upper-case letters
RECURSIVE ColumnNameToNumber(_)
ColumnNameToNumber(columnName) ==
    IF columnName = <<>> THEN 0
    ELSE LetterNo(Head(columnName)) * IntPow(26, Len(columnName) - 1)
         + ColumnNameToNumber(Tail(columnName))

\* Utils.parseCellAddress on a Cell token, given as the letters and the digits
\* its regular expression captures (the model's addresses hold no '$'; the
\* address field of the ref is not modelled)
ParseCellAddress(letters, digits) ==
    Cell(NoSheet, DigitsVal(digits), ColumnNameToNumber(letters))

\* Utils.toNumber(image)
ToNumber(image) == StrToNumber(image)

\* Utils.toString(image): the image without its quotes (the strings of the
\* model hold no doubled quote)
ToStringLiteral(image) == Str(SubSeq(image, 2, Len(image) - 1))

\* String.prototype.toUpperCase on the names and images of the model
ToUpperCase(s) ==
    CASE s = "true" -> "TRUE"
      [] s = "false" -> "FALSE"
      [] s = "round" -> "ROUND"
      [] s = "len" -> "LEN"
      [] s = "#n/a" -> "#N/A"
      [] OTHER -> s

\* Utils.toBoolean(image)
ToBoolean(image) == Bool(ToUpperCase(image) = "TRUE")

\* Utils.toError(image): new FormulaError(image.toUpperCase()), which for a
\* standard code is the registered instance
ToError(image) ==
    FormulaErrorNew(StaticErrorMap, FreshId, ToUpperCase(image), FALSE, NoMsg, FALSE).obj

\* a Collection: its _data and _refs
Collection(data, refs) == [t |-> "collection", data |-> data, refs |-> refs]

\* a reference object after retrieveRef went through it: getCell / getRange
\* have written position.sheet into a ref that had no sheet
Retrieved(obj, context) ==
    IF HasRef(obj) THEN [obj EXCEPT !.ref = WithPositionSheet(obj.ref, context.position)]
    ELSE obj

\* Utils.applyUnion(refs)
ApplyUnion(refs, context) ==
    IF \E i \in 1..Len(refs) : IsFormulaError(refs[i])
    THEN refs[CHOOSE i \in 1..Len(refs) :
                /\ IsFormulaError(refs[i])
                /\ \A j \in 1..(i - 1) : ~IsFormulaError(refs[j])]
    ELSE Collection([i \in 1..Len(refs) |-> ExtractRefValue(refs[i], context).val],
                    [i \in 1..Len(refs) |-> Retrieved(refs[i], context)])

----------------------------------------------------------------------------
(* FormulaHelpers.accept, checkFunctionResult (formulas/helpers.ts)          *)

\* the name Types[type] of a requested type; "NONE" stands for type = null
TypeName(type) == IF type = "NONE" THEN "" ELSE type

\* FormulaError.ARG_MISSING([type])
ARG_MISSING(type) == ErrObj("#N/A", FreshId, "Argument type " \o TypeName(type) \o " is missing.")

\* param.isArray of an object (undefined, hence false, without the field)
IsArrayField(param) == "isArray" \in DOMAIN param /\ param.isArray

\* if (param.value != null) param = param.value
Unwrapped(param) ==
    IF "value" \in DOMAIN param /\ ~IsNullish(param.value) THEN param.value ELSE param

\* the type conversion at the end of accept
AcceptTyped(param, type) ==
    CASE type = "STRING" ->
           Return(Str(IF param.t = "boolean"
                      THEN (IF param.b THEN <<"T", "R", "U", "E">>
                            ELSE <<"F", "A", "L", "S", "E">>)
                      ELSE ToStringJs(param)))
      [] type = "BOOLEAN" ->
           IF param.t = "string" THEN Throw(VALUE)
           ELSE IF param.t = "number" THEN Return(Bool(~IsNaN(param) /\ param # Num(0)))
           ELSE Return(param)
      [] type = "NUMBER" -> AcceptNumber(param, FALSE, TRUE)
      [] type = "NUMBER_NO_BOOLEAN" -> AcceptNumber(param, FALSE, FALSE)
      [] OTHER -> Throw(VALUE)

\* accept from `Return unparsed type` on, for the types NUMBER, STRING,
\* BOOLEAN, NUMBER_NO_BOOLEAN and none
AcceptUnwrapped(param, isArray, type) ==
    IF type = "NONE" THEN Return(param)
    ELSE IF IsFormulaError(param) THEN Throw(param)
    ELSE AcceptTyped(IF isArray THEN param.a[1][1] ELSE param, type)

\* H.accept(param, type, defValue): defValue is <<>> (undefined) or <<v>>
Accept(param, type, defValue) ==
    IF IsNullish(param)
    THEN (IF defValue = <<>> THEN Throw(ARG_MISSING(type)) ELSE Return(defValue[1]))
    ELSE IF param.t \in {"number", "string", "boolean", "array"} THEN Return(param)
    ELSE AcceptUnwrapped(Unwrapped(param), IsArrayField(param), type)

\* H.checkFunctionResult(result)
CheckFunctionResult(result) ==
    IF IsNumber(result) /\ IsNaN(result) THEN VALUE
    ELSE IF IsNumber(result) /\ ~IsFinite(result) THEN NUM
    ELSE IF IsNullish(result) THEN NULL
    ELSE result

----------------------------------------------------------------------------
(* The function registry and the call protocol (FormulaParser in            *)
(* grammar/hooks.ts), with the built-ins the model's formulas call          *)

\* the keys of MathFunctions, LogicalFunctions, EngFunctions,
\* StatisticalFunctions and DateFunctions among the functions of the model
FunsNullAs0 == {"ROUND", "SUMIF"}

FunsNeedContextAndNoDataRetrieve ==
    {"ROW", "ROWS", "COLUMN", "COLUMNS", "SUMIF", "INDEX", "AVERAGEIF", "IF"}

\* the keys of config.functionsNeedContext of the modelled host:
\*   CTX:     (context, ...args) => args.length
HostFunctionsNeedContext == {"CTX"}

FunsNeedContext ==
    HostFunctionsNeedContext \cup FunsNeedContextAndNoDataRetrieve
    \cup {"INDEX", "OFFSET", "INDIRECT", "IF", "CHOOSE", "WEBSERVICE"}

\* the keys of InformationFunctions
FunsPreserveRef ==
    {"ISBLANK", "ISERR", "ISERROR", "ISEVEN", "ISLOGICAL", "ISNA", "ISNONTEXT",
     "ISNUMBER", "ISTEXT"}

\* the built-ins of the model
Builtins == {"ROUND", "LEN", "ISBLANK", "ISERROR", "SUMIF"}

\* config.functions of the modelled host:
\*   ARGS:    (...args) => args.length
\*   RAISE:   () => { throw FormulaError.VALUE }
\*   FAIL:    () => { throw new Error('boom') }
\*   NOTHING: () => undefined
\*   LATER:   async () => 1
\*   REJECT:  async () => { throw FormulaError.VALUE }
\*   CHOOSE:  (context, ...args) => args.length
HostFunctions == {"ARGS", "RAISE", "FAIL", "NOTHING", "LATER", "REJECT", "CHOOSE"}

\* the keys of this.functions
Registered == Builtins \cup HostFunctions \cup HostFunctionsNeedContext

\* name.startsWith('_xlfn.') ? name.slice(6) : name, on the names of the model
StripXlfn(name) ==
    CASE name = "_xlfn.LEN" -> "LEN"
      [] name = "_xlfn.FOO" -> "FOO"
      [] OTHER -> name

\* the argument objects _callFunction builds
ArgOmitted(nullValue) ==
    [t |-> "arg", shape |-> "omitted", value |-> nullValue, isArray |-> FALSE, omitted |-> TRUE]

\* {value, isArray, ref: arg.ref}; ref is <<>> when arg has no ref
ArgPreserve(value, isArray, ref) ==
    [t |-> "arg", shape |-> "preserve", value |-> value, isArray |-> isArray, ref |-> ref]

ArgPlain(value, isArray, isRangeRef, isCellRef) ==
    [t |-> "arg", shape |-> "plain", value |-> value, isArray |-> isArray,
     isRangeRef |-> isRangeRef, isCellRef |-> isCellRef]

\* nullValue = this.funsNullAs0.includes(name) ? 0 : ''
NullValue(name) == IF name \in FunsNullAs0 THEN Num(0) ELSE Str(<<>>)

\* the callback of args.map in _callFunction
ShapeArg(name, arg, context) ==
    LET Shaped(r) ==
            IF name \in FunsPreserveRef
            THEN ArgPreserve(r.val, r.isArray,
                             IF HasRef(arg) THEN <<Retrieved(arg, context).ref>> ELSE <<>>)
            ELSE ArgPlain(r.val, r.isArray, IsRangeRef(arg), IsCellRef(arg))
    IN  IF arg = Null THEN ArgOmitted(NullValue(name))
        ELSE Shaped(ExtractRefValue(arg, context))

ShapeArgs_RetrievesAll(name, args, context) ==
    [i \in 1..Len(args) |-> ShapeArg(name, args[i], context)]

\* the arguments the function is called with
ShapeArgs(name, args, context) ==
    IF name \in FunsNeedContextAndNoDataRetrieve THEN args
    ELSE [i \in 1..Len(args) |-> ShapeArg(name, args[i], context)]

\* the i-th parameter of a function called with args
Param(args, i) == IF i <= Len(args) THEN args[i] ELSE Undefined

NumAbs(x) == [x EXCEPT !.n = Abs(x.n)]

\* Math.round
MathRound(x) == IF ~IsFinite(x) THEN x ELSE Num((2 * x.n + x.d) \div (2 * x.d))

\* the body of ROUND after its two H.accept calls
RoundNumber(number, digits, multiplier, sign) ==
    IF NumLess(Num(0), digits)
    THEN NumDiv(NumMul(sign, MathRound(NumMul(NumAbs(number), multiplier))), multiplier)
    ELSE IF digits = Num(0)
    THEN NumMul(sign, MathRound(NumAbs(number)))
    ELSE NumMul(NumMul(sign, MathRound(NumDiv(NumAbs(number), multiplier))), multiplier)

\* MathFunctions.ROUND(number, digits)
ROUND(number, digits) ==
    LET Rounded(n, d) ==
            IF n.k = "throw" THEN n
            ELSE IF d.k = "throw" THEN d
            ELSE Return(RoundNumber(n.v, d.v, MathPow(Num(10), NumAbs(d.v)),
                                    IF NumLess(Num(0), n.v) THEN Num(1) ELSE Num(-1)))
    IN  Rounded(Accept(number, "NUMBER", <<>>), Accept(digits, "NUMBER", <<>>))

\* TextFunctions.LEN(text)
LEN(text) ==
    LET Length(s) == IF s.k = "throw" THEN s ELSE Return(Num(Len(s.v.s)))
    IN  Length(Accept(text, "STRING", <<>>))

\* InformationFunctions.ISBLANK(value)
ISBLANK(value) ==
    IF ~IsNullish(value) /\ "ref" \in DOMAIN value /\ value.ref # <<>>
    THEN Return(Bool(IsNullish(value.value) \/ value.value = Str(<<>>)))
    ELSE Return(Bool(FALSE))

\* InformationFunctions.ISERROR(value)
ISERROR(value) ==
    LET Test(a) == IF a.k = "throw" THEN a ELSE Return(Bool(IsFormulaError(a.v)))
    IN  Test(Accept(value, "NONE", <<>>))

\* this.functions[name](...args) or this.functions[name](this, ...args): what
\* the call returns or throws.  SUMIF starts with context.retrieveRanges(...),
\* which FormulaParser does not have.
FunctionBody(name, args) ==
    CASE name = "ROUND" -> ROUND(Param(args, 1), Param(args, 2))
      [] name = "LEN" -> LEN(Param(args, 1))
      [] name = "ISBLANK" -> ISBLANK(Param(args, 1))
      [] name = "ISERROR" -> ISERROR(Param(args, 1))
      [] name = "SUMIF" -> Throw(JsError("context.retrieveRanges is not a function"))
      [] name = "ARGS" -> Return(Num(Len(args)))
      [] name = "RAISE" -> Throw(VALUE)
      [] name = "FAIL" -> Throw(JsError("boom"))
      [] name = "NOTHING" -> Return(Undefined)
      [] name = "LATER" -> Return(Promise(Return(Num(1))))
      [] name = "REJECT" -> Return(Promise(Throw(VALUE)))
      [] name \in {"CTX", "CHOOSE"} -> Return(Num(Len(args)))

\* the effects of an evaluation so far: the invocations made, this.logs
Effects(calls, newLogs) == [calls |-> calls, logs |-> newLogs]

\* an outcome together with the effects
Done(out, fx) == [out |-> out, fx |-> fx]

\* one invocation: the function's name, the arguments it received, whether
\* the engine was passed as the first argument
Invocation(name, args, engineFirst) ==
    [name |-> name, args |-> args, engineFirst |-> engineFirst]

\* {value: 0, ref: {}}
TestResult == [t |-> "ref", ref |-> CellRef(NoSheet, None, None), value |-> Num(0)]

NotImplemented_LogsEveryCall(name, fx, context) ==
    IF context.isTest
    THEN Done(Return(TestResult), Effects(fx.calls, Append(fx.logs, name)))
    ELSE Done(Throw(NOT_IMPLEMENTED(name)), fx)

\* the branches of _callFunction that give up on the function
NotImplemented(name, fx, context) ==
    IF context.isTest
    THEN Done(Return(TestResult),
              IF \E i \in 1..Len(fx.logs) : fx.logs[i] = name THEN fx
              ELSE Effects(fx.calls, Append(fx.logs, name)))
    ELSE Done(Throw(NOT_IMPLEMENTED(name)), fx)

\* _callFunction from `if (this.functions[name])` on
CallRegistered(name, args, fx, context) ==
    LET Called(r, after) ==
            IF r.k = "throw" THEN (IF IsFormulaError(r.v) THEN Done(Return(r.v), after)
                                   ELSE Done(r, after))
            ELSE IF r.v = Undefined THEN NotImplemented(name, after, context)
            ELSE Done(r, after)
    IN  IF name \in Registered
        THEN Called(FunctionBody(name, args),
                    Effects(Append(fx.calls,
                                   Invocation(name, args,
                                              name \in FunsNeedContextAndNoDataRetrieve
                                              \/ name \in FunsNeedContext)),
                            fx.logs))
        ELSE NotImplemented(name, fx, context)

\* FormulaParser._callFunction(name, args)
CallFunctionInner(name, args, fx, context) ==
    LET Named(upper) == CallRegistered(upper, ShapeArgs(upper, args, context), fx, context)
    IN  Named(ToUpperCase(StripXlfn(name)))

\* the sync branch of callFunction
CallFunctionSync(name, args, fx, context) ==
    LET Checked(r) == IF r.out.k = "throw" THEN r
                      ELSE Done(Return(CheckFunctionResult(r.out.v)), r.fx)
    IN  Checked(CallFunctionInner(name, args, fx, context))

\* FormulaParser.callFunctionAsync(name, args): the promise it returns, settled
CallFunctionAsync(name, args, fx, context) ==
    LET Settled(r) ==
            IF r.out.k = "throw" THEN Done(Return(Promise(r.out)), r.fx)
            ELSE IF Await(r.out.v).k = "throw" THEN Done(Return(Promise(Await(r.out.v))), r.fx)
            ELSE Done(Return(Promise(Return(CheckFunctionResult(Await(r.out.v).v)))), r.fx)
        Rejected == {i \in 1..Len(args) : Await(args[i]).k = "throw"}
    IN  IF Rejected # {}
        THEN Done(Return(Promise(Await(args[CHOOSE i \in Rejected :
                                             \A j \in Rejected : i <= j]))), fx)
        ELSE Settled(CallFunctionInner(name, [i \in 1..Len(args) |-> Await(args[i]).v],
                                       fx, context))

\* FormulaParser.callFunction(name, args)
CallFunction(name, args, fx, context) ==
    IF context.async THEN CallFunctionAsync(name, args, fx, context)
    ELSE CallFunctionSync(name, args, fx, context)

----------------------------------------------------------------------------
(* The grammar rules with their embedded actions (Parser in                 *)
(* grammar/hooks.ts), on the tree of rule invocations of a formula text     *)

\* the nodes of the tree: what a rule consumed
NumberNode(image) == [kind |-> "Number", image |-> image]
StringNode(image) == [kind |-> "String", image |-> image]
BooleanNode(image) == [kind |-> "Boolean", image |-> image]
ErrorNode(image) == [kind |-> "Error", image |-> image]
CellNode(letters, digits) == [kind |-> "Cell", letters |-> letters, digits |-> digits]
SheetNode(sheetName, item) == [kind |-> "Sheet", name |-> sheetName, item |-> item]
RangeNode(items) == [kind |-> "Range", items |-> items]
IntersectNode(items) == [kind |-> "Intersect", items |-> items]
BinaryNode(operands, infixes) == [kind |-> "Binary", operands |-> operands, infixes |-> infixes]
ParenNode(items) == [kind |-> "Paren", items |-> items]
ArrayNode(rows) == [kind |-> "Array", rows |-> rows]
NameNode(name) == [kind |-> "Name", name |-> name]
CallNode(functionName, slots) == [kind |-> "Call", name |-> functionName, slots |-> slots]

\* an operand of a binary formula: its prefix signs, its atom, its percent sign
Operand(prefixes, atom, percent) ==
    [prefixes |-> prefixes, atom |-> atom, percent |-> percent]

Plain(atom) == Operand(<<>>, atom, FALSE)

\* an empty slot of an argument list: nothing between two commas, before the
\* first or after the last
Hole == [kind |-> "Hole"]

\* the rule `arguments` on the slots the commas of the list separate: the
\* commas in the front are consumed and push nothing; every later comma
\* pushes null, which a formula after it replaces
RECURSIVE ArgumentsRule(_)
ArgumentsRule(slots) ==
    IF slots = <<>> THEN <<>>
    ELSE IF Head(slots) = Hole THEN ArgumentsRule(Tail(slots))
    ELSE slots

\* the values of the nodes evaluated so far, what was thrown, the effects
Values(values, thrown, fx) == [values |-> values, thrown |-> thrown, fx |-> fx]

\* the action of the sheet-name alternative of referenceWithoutInfix
SheetPrefixed(sheetName, r) ==
    IF r.out.k = "throw" \/ IsFormulaError(r.out.v) THEN r
    ELSE IF HasRef(r.out.v) THEN Done(Return([r.out.v EXCEPT !.ref.sheet = sheetName]), r.fx)
    ELSE Done(Throw(JsError("Cannot set properties of undefined (setting 'sheet')")), r.fx)

\* constant, constantForArray (the array literals of the model hold unsigned
\* constants)
Constant(node) ==
    CASE node.kind = "Number" -> ToNumber(node.image)
      [] node.kind = "String" -> ToStringLiteral(node.image)
      [] node.kind = "Boolean" -> ToBoolean(node.image)
      [] node.kind = "Error" -> ToError(node.image)

\* constantArray: Utils.toArray(arr)
ConstantArray(rows) ==
    Arr([i \in 1..Len(rows) |-> [j \in 1..Len(rows[i]) |-> Constant(rows[i][j])]])

\* the host's onVariable(name, sheet, position): the object the host keeps
\* for the name, null for a name it does not know
OnVariable(names, name) == IF name \in DOMAIN names THEN names[name] ELSE Null

\* FormulaParser.getVariable(name): {ref: <the host's object>} or #NAME?
GetVariable(name, context) ==
    IF OnVariable(context.names, name) = Null THEN NAME
    ELSE RefObj(OnVariable(context.names, name))

RECURSIVE Eval(_, _, _), EvalItems(_, _, _), EvalOperands(_, _, _)

EvalItems_StopsAtError(items, fx, context) ==
    LET Then(v, rest) ==
            IF rest.thrown # <<>> THEN rest
            ELSE Values(<<v>> \o rest.values, <<>>, rest.fx)
        First(r) ==
            IF r.out.k = "throw" THEN Values(<<>>, <<r.out.v>>, r.fx)
            ELSE IF IsFormulaError(r.out.v) THEN Values(<<r.out.v>>, <<>>, r.fx)
            ELSE Then(r.out.v, EvalItems(Tail(items), r.fx, context))
    IN  IF items = <<>> THEN Values(<<>>, <<>>, fx)
        ELSE IF Head(items) = Hole THEN Then(Null, EvalItems(Tail(items), fx, context))
        ELSE First(Eval(Head(items), fx, context))

\* the sub-rules of a rule invoked one after the other; an exception ends the
\* rule.  An empty slot stands for the null the rule `arguments` pushes.
EvalItems(items, fx, context) ==
    LET Then(v, rest) ==
            IF rest.thrown # <<>> THEN rest
            ELSE Values(<<v>> \o rest.values, <<>>, rest.fx)
        First(r) ==
            IF r.out.k = "throw" THEN Values(<<>>, <<r.out.v>>, r.fx)
            ELSE Then(r.out.v, EvalItems(Tail(items), r.fx, context))
    IN  IF items = <<>> THEN Values(<<>>, <<>>, fx)
        ELSE IF Head(items) = Hole THEN Then(Null, EvalItems(Tail(items), fx, context))
        ELSE First(Eval(Head(items), fx, context))

\* the operands of formulaWithBinaryOp: formulaWithPercentOp on each, that is
\* the operand's atom, then its prefixes, then its percent sign
EvalOperands(operands, fx, context) ==
    LET Then(v, rest) ==
            IF rest.thrown # <<>> THEN rest
            ELSE Values(<<v>> \o rest.values, <<>>, rest.fx)
        Applied(u, after) ==
            IF u.k = "throw" THEN Values(<<>>, <<u.v>>, after)
            ELSE Then(u.v, EvalOperands(Tail(operands), after, context))
        First(r) ==
            IF r.out.k = "throw" THEN Values(<<>>, <<r.out.v>>, r.fx)
            ELSE Applied(FormulaWithPercentOp(
                             Operand(Head(operands).prefixes, r.out.v, Head(operands).percent),
                             context), r.fx)
    IN  IF operands = <<>> THEN Values(<<>>, <<>>, fx)
        ELSE First(Eval(Head(operands).atom, fx, context))

\* a rule and the rules below it: what it returns or throws, and the effects
Eval(node, fx, context) ==
    LET Ranged(vs) ==
            IF vs.thrown # <<>> THEN Done(Throw(vs.thrown[1]), vs.fx)
            ELSE Done(ApplyRange(vs.values), vs.fx)
        Intersected(vs) ==
            IF vs.thrown # <<>> THEN Done(Throw(vs.thrown[1]), vs.fx)
            ELSE Done(ApplyIntersect(vs.values), vs.fx)
        Folded(vs) ==
            IF vs.thrown # <<>> THEN Done(Throw(vs.thrown[1]), vs.fx)
            ELSE Done(RuleOutcome(FoldBinary(vs.values, node.infixes, context)), vs.fx)
        United(vs) ==
            IF vs.thrown # <<>> THEN Done(Throw(vs.thrown[1]), vs.fx)
            ELSE IF Len(vs.values) > 1 THEN Done(Return(ApplyUnion(vs.values, context)), vs.fx)
            ELSE Done(Return(vs.values[1]), vs.fx)
        Called(vs) ==
            IF vs.thrown # <<>> THEN Done(Throw(vs.thrown[1]), vs.fx)
            ELSE CallFunction(node.name, vs.values, vs.fx, context)
    IN  CASE node.kind \in {"Number", "String", "Boolean", "Error"} ->
               Done(Return(Constant(node)), fx)
          [] node.kind = "Cell" ->
               Done(Return(ParseCellAddress(node.letters, node.digits)), fx)
          [] node.kind = "Name" -> Done(Return(GetVariable(node.name, context)), fx)
          [] node.kind = "Sheet" -> SheetPrefixed(node.name, Eval(node.item, fx, context))
          [] node.kind = "Range" -> Ranged(EvalItems(node.items, fx, context))
          [] node.kind = "Intersect" -> Intersected(EvalItems(node.items, fx, context))
          [] node.kind = "Binary" -> Folded(EvalOperands(node.operands, fx, context))
          [] node.kind = "Paren" -> United(EvalItems(node.items, fx, context))
          [] node.kind = "Array" -> Done(Return(ConstantArray(node.rows)), fx)
          [] node.kind = "Call" ->
               Called(EvalItems(ArgumentsRule(node.slots), fx, context))

----------------------------------------------------------------------------
(* FormulaParser.checkFormulaResult, parse, parseAsync (grammar/hooks.ts)    *)

\* the object branch of checkFormulaResult with allowReturnArray
CheckObjectAllowArray(result, context) ==
    LET Checked(retrieved) ==
            IF retrieved.t \in {"error", "ref", "collection", "promise", "arg"}
            THEN Return(VALUE)
            ELSE Return(retrieved)
    IN  Checked(IF HasRef(result) THEN RetrieveRef(result, context) ELSE result)

\* the object branch of checkFormulaResult without allowReturnArray
CheckObjectNoArray(result, context) ==
    IF HasRef(result) /\ IsSome(result.ref.row) /\ result.ref.row[1] # 0
       /\ ~IsSome(result.ref.from)
    THEN Return(RetrieveRef(result, context))
    ELSE IF HasRef(result) /\ IsSome(result.ref.from)
            /\ result.ref.from[1].col = result.ref.to[1].col
    THEN Return(RetrieveRef(RefObj(CellRef(NoSheet, Some(result.ref.from[1].row),
                                           Some(result.ref.from[1].col))), context))
    ELSE IF IsArray(result) THEN Return(result.a[1][1])
    ELSE Return(VALUE)

\* FormulaParser.checkFormulaResult(result, allowReturnArray)
CheckFormulaResult(result, allowReturnArray, context) ==
    IF IsNumber(result)
    THEN (IF IsNaN(result) THEN Return(VALUE)
          ELSE IF ~IsFinite(result) THEN Return(NUM)
          ELSE Return(result))
    ELSE IF result.t \in {"string", "boolean", "undefined"} THEN Return(result)
    ELSE IF IsFormulaError(result) THEN Return(result)
    ELSE IF result = Null
    THEN Throw(JsError("Cannot read properties of null (reading 'ref')"))
    ELSE IF allowReturnArray THEN CheckObjectAllowArray(result, context)
    ELSE CheckObjectNoArray(result, context)

\* the lines parse and lex build their messages from (texts of one line)
RECURSIVE Spaces(_)
Spaces(n) == IF n <= 0 THEN "" ELSE " " \o Spaces(n - 1)

LocatedMessage(inputText, line, column, message) ==
    "\n" \o inputText \o "\n" \o Spaces(column - 1) \o "^\n"
    \o "Error at position " \o ToString(line) \o ":" \o ToString(column) \o "\n" \o message

\* what lex(inputText) throws on a lexing error [line, column, message]
LexError(error, inputText) ==
    ERROR(LocatedMessage(inputText, error.line, error.column, error.message))

\* Utils.formatChevrotainError(error, inputText): error is the parser's
\* exception, with the token it names (error.token of a
\* NotAllInputParsedException, error.previousToken of the others)
FormatChevrotainError(error, inputText) ==
    ERROR(LocatedMessage(inputText, error.startLine,
                         IF error.notAllInputParsed THEN error.startColumn
                         ELSE error.startColumn + 1,
                         error.message))

\* (e as Error).message
MessageOf(e) == IF e.msg = NoMsg THEN "" ELSE e.msg

\* a formula text as the lexer and the parser's recognition engine see it:
\* the lexing error if there is one; the tree of rule invocations, absent
\* when a recognition exception made the top rule return undefined; the
\* exceptions the parser saved in parser.errors
Formula(inputText, lexErrors, tree, errors) ==
    [text |-> inputText, lexErrors |-> lexErrors, tree |-> tree, errors |-> errors]

\* this.parser.formulaWithBinaryOp() on the tokens of a formula
TopRule(formula, fx, context) ==
    IF formula.tree = <<>> THEN Done(Return(Undefined), fx)
    ELSE Eval(formula.tree[1], fx, context)

\* parse / parseAsync from checkFormulaResult on: ruled is what the top rule
\* returned (awaited, in parseAsync) or threw
ParseChecked(formula, ruled, allowReturnArray, context) ==
    LET Finished(c) ==
            IF c.k = "throw" THEN Throw(ERROR(MessageOf(c.v)))
            ELSE IF IsFormulaError(c.v) THEN c
            ELSE IF formula.errors # <<>>
            THEN Throw(FormatChevrotainError(formula.errors[1], formula.text))
            ELSE c
    IN  IF ruled.k = "throw" THEN Throw(ERROR(MessageOf(ruled.v)))
        ELSE Finished(CheckFormulaResult(ruled.v, allowReturnArray, context))

\* FormulaParser.parse(inputText, position, allowReturnArray)
Parse(formula, pos, allowReturnArray, fx, testMode) ==
    LET Ruled(r) ==
            Done(ParseChecked(formula, r.out, allowReturnArray,
                              Context(pos, FALSE, testMode)), r.fx)
    IN  IF formula.text = "" THEN Done(Throw(JsError("Input must not be empty.")), fx)
        ELSE IF formula.lexErrors # <<>>
        THEN Done(Throw(LexError(formula.lexErrors[1], formula.text)), fx)
        ELSE Ruled(TopRule(formula, fx, Context(pos, FALSE, testMode)))

\* FormulaParser.parseAsync(inputText, position, allowReturnArray): the
\* promise it returns, settled
ParseAsync(formula, pos, allowReturnArray, fx, testMode) ==
    LET Ruled(r) ==
            Done(Return(Promise(ParseChecked(formula,
                                             IF r.out.k = "throw" THEN r.out
                                             ELSE Await(r.out.v),
                                             allowReturnArray,
                                             Context(pos, TRUE, testMode)))), r.fx)
    IN  IF formula.text = ""
        THEN Done(Return(Promise(Throw(JsError("Input must not be empty.")))), fx)
        ELSE IF formula.lexErrors # <<>>
        THEN Done(Return(Promise(Throw(LexError(formula.lexErrors[1], formula.text)))), fx)
        ELSE Ruled(TopRule(formula, fx, Context(pos, TRUE, testMode)))

----------------------------------------------------------------------------
(* parse on a formula whose first operand is a defined name: the result,    *)
(* and what the parse leaves in the object the host's onVariable returned   *)
(* for the name (getVariable wraps that object itself as {ref: object})     *)

\* the engine's fields with the host's table of names
NamedContext(pos, names) ==
    [position |-> pos, async |-> FALSE, isTest |-> FALSE, names |-> names]

\* parse(inputText, position, allowReturnArray) for a text that lexes
ParseNamed(formula, pos, allowReturnArray, names) ==
    LET Ruled(r) == ParseChecked(formula, r.out, allowReturnArray, NamedContext(pos, names))
    IN  Ruled(TopRule(formula, Effects(<<>>, <<>>), NamedContext(pos, names)))

\* the first operand's atom, the name it resolves
NamedAtom(formula) == formula.tree[1].operands[1].atom

NameOf(atom) == IF atom.kind = "Sheet" THEN atom.item.name ELSE atom.name

\* referenceWithoutInfix, sheet-name alternative:
\* referenceItem.ref.sheet = sheetName
AfterPrefix(atom, object) ==
    IF atom.kind = "Sheet" THEN [object EXCEPT !.sheet = atom.name] ELSE object

\* the evaluation hands the object to getCell / getRange: applyInfix
\* dereferences its operands through extractRefValue; checkFormulaResult
\* dereferences a reference when allowReturnArray is set and a single cell
\* when it is not (for a one-column range it builds a new ref)
IsRetrieved(formula, object, allowReturnArray) ==
    \/ formula.tree[1].infixes # <<>>
    \/ allowReturnArray
    \/ IsSome(object.row) /\ object.row[1] # 0 /\ ~IsSome(object.from)

\* the host's table after the parse: getCell / getRange write position.sheet
\* into a ref without a sheet
NamesAfter(formula, pos, allowReturnArray, names) ==
    LET Stored(name, object) ==
            [names EXCEPT ![name] =
                IF IsRetrieved(formula, object, allowReturnArray)
                THEN WithPositionSheet(object, pos) ELSE object]
    IN  IF OnVariable(names, NameOf(NamedAtom(formula))) = Null THEN names
        ELSE Stored(NameOf(NamedAtom(formula)),
                    AfterPrefix(NamedAtom(formula), names[NameOf(NamedAtom(formula))]))

----------------------------------------------------------------------------
(* The `await` expressions an evaluation in async mode executes, listed by  *)
(* the async function that holds them, the functions in the order in which  *)
(* the rules call them                                                      *)

\* one executed `await`: the async function that holds it, what it awaits
AwaitSite(fn, awaited) == [fn |-> fn, awaited |-> awaited]

\* applyInfixAsync: `await value1`, then `await value2` unless value1 rejected
InfixAwaits(value1, value2) ==
    <<AwaitSite("applyInfixAsync", "value1")>>
    \o (IF Await(value1).k = "throw" THEN <<>>
        ELSE <<AwaitSite("applyInfixAsync", "value2")>>)

\* the fold of formulaWithBinaryOp for one precedence level, from `index` on:
\* applyInfix, that is applyInfixAsync, for every infix of the level
RECURSIVE FoldLevelAwaits(_, _, _, _)
FoldLevelAwaits(st, ops, index, context) ==
    IF index > Len(st.infixes) THEN <<>>
    ELSE IF st.infixes[index] \notin ops THEN FoldLevelAwaits(st, ops, index + 1, context)
    ELSE InfixAwaits(st.values[index], st.values[index + 1])
         \o FoldLevelAwaits(
                FoldState(Splice(st.values, index, 2,
                                 <<ApplyInfix(st.values[index], st.infixes[index],
                                              st.values[index + 1], context).v>>),
                          Splice(st.infixes, index, 1, <<>>), <<>>),
                ops, NextIndexAfterFold(index), context)

\* the fold for the precedence levels from `level` on
RECURSIVE FoldAwaits(_, _, _)
FoldAwaits(st, level, context) ==
    IF level > Len(BinaryOperatorsPrecedence) THEN <<>>
    ELSE FoldLevelAwaits(st, BinaryOperatorsPrecedence[level], 1, context)
         \o FoldAwaits(FoldLevel(st, BinaryOperatorsPrecedence[level], 1, context),
                       level + 1, context)

\* callFunctionAsync: `await arg` for the arguments up to the first that
\* rejects
RECURSIVE ArgumentAwaits(_, _)
ArgumentAwaits(args, i) ==
    IF i > Len(args) THEN <<>>
    ELSE <<AwaitSite("callFunctionAsync", "arg")>>
         \o (IF Await(args[i]).k = "throw" THEN <<>> ELSE ArgumentAwaits(args, i + 1))

\* callFunctionAsync: the awaits of the arguments, then
\* `await this._callFunction(name, awaitedArgs)` unless _callFunction threw
CallAwaits(name, args, fx, context) ==
    LET Returned(r) == IF r.out.k = "throw" THEN <<>>
                       ELSE <<AwaitSite("callFunctionAsync", "res")>>
    IN  ArgumentAwaits(args, 1)
        \o (IF \E i \in 1..Len(args) : Await(args[i]).k = "throw" THEN <<>>
            ELSE Returned(CallFunctionInner(name, [i \in 1..Len(args) |-> Await(args[i]).v],
                                            fx, context)))

\* the awaits a list of sub-rules executed, and what the sub-rules evaluated to
Traced(awaits, vs) == [awaits |-> awaits, vs |-> vs]

\* applyPrefixAsync for the prefixes of an operand of formulaWithBinaryOp,
\* then applyPostfixAsync for its percent sign (one `await value` each)
OperandAwaits(operand) ==
    (IF Len(operand.prefixes) > 0
     THEN <<AwaitSite("applyPrefixAsync", "value")>> ELSE <<>>)
    \o (IF operand.percent
        THEN <<AwaitSite("applyPostfixAsync", "value")>> ELSE <<>>)

\* the sub-rules a rule invokes: the atoms of the operands, the arguments,
\* the items
SubRules(node) ==
    CASE node.kind = "Binary" -> [i \in 1..Len(node.operands) |-> node.operands[i].atom]
      [] node.kind = "Call" -> ArgumentsRule(node.slots)
      [] OTHER -> node.items

\* the awaits the rule itself executes after each of its sub-rules
AfterSubRules(node) ==
    CASE node.kind = "Binary" ->
           [i \in 1..Len(node.operands) |-> OperandAwaits(node.operands[i])]
      [] node.kind = "Call" -> [i \in 1..Len(ArgumentsRule(node.slots)) |-> <<>>]
      [] OTHER -> [i \in 1..Len(node.items) |-> <<>>]

\* the values formulaWithBinaryOp folds: the atoms' values with the prefixes
\* and the percent sign applied (promises, with context.async set)
OperandPromises(operands, values, context) ==
    [i \in 1..Len(values) |->
        FormulaWithPercentOp(Operand(operands[i].prefixes, values[i], operands[i].percent),
                             context).v]

RECURSIVE Awaits(_, _, _), ItemsAwaits(_, _, _, _)

\* the sub-rules of a rule, one after the other until one throws; after[i]
\* are the awaits the rule executes once its i-th sub-rule has returned
ItemsAwaits(items, after, fx, context) ==
    LET Then(v, own, rest) ==
            Traced(own \o rest.awaits,
                   IF rest.vs.thrown # <<>> THEN rest.vs
                   ELSE Values(<<v>> \o rest.vs.values, <<>>, rest.vs.fx))
        First(r, own) ==
            IF r.out.k = "throw" THEN Traced(own, Values(<<>>, <<r.out.v>>, r.fx))
            ELSE Then(r.out.v, own \o Head(after),
                      ItemsAwaits(Tail(items), Tail(after), r.fx, context))
    IN  IF items = <<>> THEN Traced(<<>>, Values(<<>>, <<>>, fx))
        ELSE IF Head(items) = Hole
        THEN Then(Null, <<>>, ItemsAwaits(Tail(items), Tail(after), fx, context))
        ELSE First(Eval(Head(items), fx, context), Awaits(Head(items), fx, context))

\* a rule and the rules below it, with context.async set: the awaits of its
\* sub-rules, then those of the fold of formulaWithBinaryOp or of
\* callFunctionAsync
Awaits(node, fx, context) ==
    LET Finished(t) ==
            t.awaits
            \o (IF t.vs.thrown # <<>> THEN <<>>
                ELSE IF node.kind = "Binary"
                THEN FoldAwaits(FoldState(OperandPromises(node.operands, t.vs.values,
                                                          context),
                                          node.infixes, <<>>), 1, context)
                ELSE IF node.kind = "Call"
                THEN CallAwaits(node.name, t.vs.values, t.vs.fx, context)
                ELSE <<>>)
    IN  IF node.kind = "Sheet" THEN Awaits(node.item, fx, context)
        ELSE IF node.kind \in {"Range", "Intersect", "Paren", "Binary", "Call"}
        THEN Finished(ItemsAwaits(SubRules(node), AfterSubRules(node), fx, context))
        ELSE <<>>

\* parseAsync: the awaits of the rules, then
\* `await this.parser.formulaWithBinaryOp()` unless the rule threw
ParseAsyncAwaits(formula, pos, fx, testMode) ==
    LET Ruled(t) ==
            t.awaits
            \o (IF t.vs.thrown # <<>> THEN <<>>
                ELSE <<AwaitSite("parseAsync", "formulaWithBinaryOp")>>)
    IN  IF formula.text = "" \/ formula.lexErrors # <<>> THEN <<>>
        ELSE Ruled(ItemsAwaits(formula.tree, [i \in 1..Len(formula.tree) |-> <<>>], fx,
                               Context(pos, TRUE, testMode)))

----------------------------------------------------------------------------
(* DepParser (grammar/dependency/hooks.ts) and its Utils                     *)
(* (grammar/dependency/utils.ts): the same rules, with hooks that record    *)
(* the references looked up instead of retrieving values                    *)

\* this.data, and the calls of getCell and getRange made so far
Tracked(data, lookups) == [data |-> data, lookups |-> lookups]

\* one call of getCell or getRange: the ref as the list would hold it, what
\* the call returned
Lookup(hook, ref, returned) == [hook |-> hook, ref |-> ref, returned |-> returned]

\* the stub [[0]]
RangeStub == Arr(<< <<Num(0)>> >>)

CoversCell_SameCellOnly(element, ref) ==
    /\ element.row = ref.row /\ element.col = ref.col /\ element.sheet = ref.sheet

\* the element test of getCell's findIndex: a range whose rows and columns
\* hold the cell, or the same cell
CoversCell(element, ref) ==
    \/ /\ IsSome(element.from)
       /\ IsSome(ref.col)
       /\ element.from[1].row <= ref.row[1] /\ element.to[1].row >= ref.row[1]
       /\ element.from[1].col <= ref.col[1] /\ element.to[1].col >= ref.col[1]
    \/ /\ element.row = ref.row /\ element.col = ref.col /\ element.sheet = ref.sheet

\* the element test of getRange's findIndex
IsSameRange(element, ref) ==
    /\ IsSome(element.from)
    /\ element.from[1].row = ref.from[1].row /\ element.from[1].col = ref.from[1].col
    /\ element.to[1].row = ref.to[1].row /\ element.to[1].col = ref.to[1].col

\* DepParser.getCell(ref): this.data and the calls after it (it returns 0)
DepGetCell(ref, st, pos) ==
    LET Found(r) == \E i \in 1..Len(st.data) : CoversCell(st.data[i], r)
        Pushed(r) == Tracked(IF Found(r) THEN st.data ELSE Append(st.data, r),
                             Append(st.lookups, Lookup("getCell", r, Num(0))))
    IN  IF IsSome(ref.row) THEN Pushed(WithPositionSheet(ref, pos))
        ELSE Tracked(st.data, Append(st.lookups, Lookup("getCell", ref, Num(0))))

\* DepParser.getRange(ref): this.data and the calls after it (it returns [[0]])
DepGetRange(ref, st, pos) ==
    LET Found(r) == \E i \in 1..Len(st.data) : IsSameRange(st.data[i], r)
        Pushed(r) == Tracked(IF Found(r) THEN st.data ELSE Append(st.data, r),
                             Append(st.lookups, Lookup("getRange", r, RangeStub)))
    IN  IF IsSome(ref.from) THEN Pushed(WithPositionSheet(ref, pos))
        ELSE Tracked(st.data, Append(st.lookups, Lookup("getRange", ref, RangeStub)))

\* DepParser.retrieveRef(valueOrRef); H.isRangeRef reads valueOrRef.ref, which
\* throws a TypeError for undefined and null
DepRetrieveRef(valueOrRef, st, pos) ==
    IF IsNullish(valueOrRef)
    THEN Done(Throw(JsError("Cannot read properties of undefined (reading 'ref')")), st)
    ELSE IF IsRangeRef(valueOrRef)
    THEN Done(Return(RangeStub), DepGetRange(valueOrRef.ref, st, pos))
    ELSE IF IsCellRef(valueOrRef)
    THEN Done(Return(Num(0)), DepGetCell(valueOrRef.ref, st, pos))
    ELSE Done(Return(valueOrRef), st)

\* Utils.extractRefValue(obj) of the dependency parser: the value, and
\* this.data with the calls after it
DepExtractRefValue(obj, st, pos) ==
    IF HasRef(obj) THEN DepRetrieveRef(obj, st, pos) ELSE Done(Return(obj), st)

\* args.forEach(arg => arg == null || this.retrieveRef(arg)) from the i-th on
RECURSIVE DepRetrieveAll(_, _, _, _)
DepRetrieveAll(args, i, st, pos) ==
    IF i > Len(args) THEN st
    ELSE IF IsNullish(args[i]) THEN DepRetrieveAll(args, i + 1, st, pos)
    ELSE DepRetrieveAll(args, i + 1, DepRetrieveRef(args[i], st, pos).fx, pos)

\* DepParser.callFunction(name, args)
DepCallFunction(name, args, st, pos) ==
    Done(Return(TestResult), DepRetrieveAll(args, 1, st, pos))

\* Utils.applyUnion(refs) of the dependency parser, from the i-th ref on
RECURSIVE DepApplyUnion(_, _, _, _, _)
DepApplyUnion(refs, i, collection, st, pos) ==
    LET Added(r) ==
            DepApplyUnion(refs, i + 1,
                          Collection(Append(collection.data, r.out.v),
                                     Append(collection.refs,
                                            IF IsSome(refs[i].ref.row) \/ IsSome(refs[i].ref.from)
                                            THEN [refs[i] EXCEPT
                                                    !.ref = WithPositionSheet(refs[i].ref, pos)]
                                            ELSE refs[i])),
                          r.fx, pos)
        AddedValue ==
            DepApplyUnion(refs, i + 1,
                          Collection(Append(collection.data, refs[i]),
                                     Append(collection.refs, refs[i])), st, pos)
    IN  IF i > Len(refs) THEN Done(Return(collection), st)
        ELSE IF IsFormulaError(refs[i]) THEN Done(Return(refs[i]), st)
        ELSE IF HasRef(refs[i]) THEN Added(DepRetrieveRef(refs[i], st, pos))
        ELSE AddedValue

\* the fold of formulaWithBinaryOp with the dependency parser's applyInfix:
\* extractRefValue on both values, then 0; one precedence level from `index`
RECURSIVE DepFoldLevel(_, _, _, _, _, _)
DepFoldLevel(values, infixes, ops, index, st, pos) ==
    IF index > Len(infixes) THEN [values |-> values, infixes |-> infixes, st |-> st]
    ELSE IF infixes[index] \notin ops
    THEN DepFoldLevel(values, infixes, ops, index + 1, st, pos)
    ELSE DepFoldLevel(Splice(values, index, 2, <<Num(0)>>), Splice(infixes, index, 1, <<>>),
                      ops, NextIndexAfterFold(index),
                      DepExtractRefValue(values[index + 1],
                                         DepExtractRefValue(values[index], st, pos).fx,
                                         pos).fx,
                      pos)

\* the precedence levels from `level` on
RECURSIVE DepFoldFrom(_, _, _)
DepFoldFrom(folded, level, pos) ==
    IF level > Len(BinaryOperatorsPrecedence) THEN folded
    ELSE DepFoldFrom(DepFoldLevel(folded.values, folded.infixes,
                                  BinaryOperatorsPrecedence[level], 1, folded.st, pos),
                     level + 1, pos)

RECURSIVE DepEval(_, _, _), DepEvalItems(_, _, _), DepEvalOperands(_, _, _)

\* the sub-rules of a rule invoked one after the other
DepEvalItems(items, st, pos) ==
    LET Then(v, rest) ==
            IF rest.thrown # <<>> THEN rest
            ELSE Values(<<v>> \o rest.values, <<>>, rest.fx)
        First(r) ==
            IF r.out.k = "throw" THEN Values(<<>>, <<r.out.v>>, r.fx)
            ELSE Then(r.out.v, DepEvalItems(Tail(items), r.fx, pos))
    IN  IF items = <<>> THEN Values(<<>>, <<>>, st)
        ELSE IF Head(items) = Hole THEN Then(Null, DepEvalItems(Tail(items), st, pos))
        ELSE First(DepEval(Head(items), st, pos))

\* formulaWithPercentOp on each operand: applyPrefix and applyPostfix call
\* extractRefValue and return 0
DepEvalOperands(operands, st, pos) ==
    LET Then(v, rest) ==
            IF rest.thrown # <<>> THEN rest
            ELSE Values(<<v>> \o rest.values, <<>>, rest.fx)
        First(r) ==
            IF r.out.k = "throw" THEN Values(<<>>, <<r.out.v>>, r.fx)
            ELSE IF Head(operands).prefixes # <<>> \/ Head(operands).percent
            THEN Then(Num(0), DepEvalOperands(Tail(operands),
                                              DepExtractRefValue(r.out.v, r.fx, pos).fx, pos))
            ELSE Then(r.out.v, DepEvalOperands(Tail(operands), r.fx, pos))
    IN  IF operands = <<>> THEN Values(<<>>, <<>>, st)
        ELSE First(DepEval(Head(operands).atom, st, pos))

\* a rule and the rules below it, with the dependency parser as context
DepEval(node, st, pos) ==
    LET Ranged(vs) ==
            IF vs.thrown # <<>> THEN Done(Throw(vs.thrown[1]), vs.fx)
            ELSE Done(ApplyRange(vs.values), vs.fx)
        Intersected(vs) ==
            IF vs.thrown # <<>> THEN Done(Throw(vs.thrown[1]), vs.fx)
            ELSE Done(ApplyIntersect(vs.values), vs.fx)
        Returned(folded) == Done(Return(folded.values[1]), folded.st)
        Folded(vs) ==
            IF vs.thrown # <<>> THEN Done(Throw(vs.thrown[1]), vs.fx)
            ELSE Returned(DepFoldFrom([values |-> vs.values, infixes |-> node.infixes,
                                       st |-> vs.fx], 1, pos))
        United(vs) ==
            IF vs.thrown # <<>> THEN Done(Throw(vs.thrown[1]), vs.fx)
            ELSE IF Len(vs.values) > 1
            THEN DepApplyUnion(vs.values, 1, Collection(<<>>, <<>>), vs.fx, pos)
            ELSE Done(Return(vs.values[1]), vs.fx)
        Called(vs) ==
            IF vs.thrown # <<>> THEN Done(Throw(vs.thrown[1]), vs.fx)
            ELSE DepCallFunction(node.name, vs.values, vs.fx, pos)
    IN  CASE node.kind \in {"Number", "String", "Boolean", "Error"} ->
               Done(Return(Constant(node)), st)
          [] node.kind = "Cell" ->
               Done(Return(ParseCellAddress(node.letters, node.digits)), st)
          [] node.kind = "Sheet" -> SheetPrefixed(node.name, DepEval(node.item, st, pos))
          [] node.kind = "Range" -> Ranged(DepEvalItems(node.items, st, pos))
          [] node.kind = "Intersect" -> Intersected(DepEvalItems(node.items, st, pos))
          [] node.kind = "Binary" -> Folded(DepEvalOperands(node.operands, st, pos))
          [] node.kind = "Paren" -> United(DepEvalItems(node.items, st, pos))
          [] node.kind = "Array" -> Done(Return(ConstantArray(node.rows)), st)
          [] node.kind = "Call" ->
               Called(DepEvalItems(ArgumentsRule(node.slots), st, pos))

\* DepParser.parse(inputText, position, ignoreError) on a parser whose
\* this.data and calls were `before`: what it returns or throws, and
\* this.data with the calls made since this.data = []
DepParse(formula, pos, ignoreError, before) ==
    LET Ended(thrown, st) ==
            IF thrown # <<>> /\ ~ignoreError
            THEN Done(Throw(ERROR(MessageOf(thrown[1]))), st)
            ELSE IF formula.errors # <<>> /\ ~ignoreError
            THEN Done(Throw(FormatChevrotainError(formula.errors[1], formula.text)), st)
            ELSE Done(Return(st.data), st)
        Checked(c) == Ended(IF c.out.k = "throw" THEN <<c.out.v>> ELSE <<>>, c.fx)
        Ruled(r) ==
            IF r.out.k = "throw" THEN Ended(<<r.out.v>>, r.fx)
            ELSE Checked(DepRetrieveRef(r.out.v, r.fx, pos))
    IN  IF formula.text = ""
        THEN Done(Throw(JsError("Input must not be empty.")), before)
        ELSE IF formula.lexErrors # <<>>
        THEN Done(Throw(LexError(formula.lexErrors[1], formula.text)), Tracked(<<>>, <<>>))
        ELSE IF formula.tree = <<>>
        THEN Ruled(Done(Return(Undefined), Tracked(<<>>, <<>>)))
        ELSE Ruled(DepEval(formula.tree[1], Tracked(<<>>, <<>>), pos))

----------------------------------------------------------------------------
(* State shared by the specifications *)

NoCall == [f |-> "none"]
NoRes == [k |-> "none"]

\* the engine and the error table right after construction
InitEngine ==
    /\ errorMap = StaticErrorMap
    /\ nextId = FirstFreeId
    /\ made = Null
    /\ logs = <<>>
    /\ invoked = <<>>
    /\ position = <<>>
    /\ async = FALSE
    /\ isTest = FALSE

InitCall == pc = "start" /\ call = NoCall /\ res = NoRes

\* a position parse() is given: a cell of the first sheet
HomePosition == <<[sheet |-> "Sheet1", row |-> 1, col |-> 1]>>

\* the engine in the operator specifications: sync mode, not in test mode
HomeContext == Context(HomePosition, FALSE, FALSE)

----------------------------------------------------------------------------
(* SpecOps: the operator algebra applied to bounded operands *)

\* a FormulaError carrying a message: not a registered instance
DetailedError == ErrObj("#N/A", FirstFreeId, "Argument type NUMBER is missing.")

PrimitiveOperands ==
    {Num(0), Num(2), Num(-1), Str(<<>>), Str(<<"2">>), Str(<<"a", "b">>),
     Bool(TRUE), Bool(FALSE)}

ErrorOperands == {DIV0, VALUE, DetailedError}

InfixOperands ==
    PrimitiveOperands \cup ErrorOperands \cup
    {Null, Arr(<<<<Num(3), Num(4)>>>>), Cell(NoSheet, 1, 1), Cell("Sheet2", HostRows, HostCols),
     Range(NoSheet, 1, 1, 2, 1), Range(NoSheet, 1, 1, 2, 2)}

AllInfixes == CompareOps \cup ConcatOps \cup MathOps

\* Utils.applyInfix(a, infix, b)
CallApplyInfix ==
    /\ pc = "start"
    /\ \E a \in InfixOperands, b \in InfixOperands, infix \in AllInfixes :
          /\ call' = [f |-> "applyInfix", a |-> a, infix |-> infix, b |-> b]
          /\ res' = ApplyInfix(a, infix, b, HomeContext)
    /\ pc' = "done"
    /\ UNCHANGED <<errorMap, nextId, made, logs, invoked, position, async, isTest>>

\* Infix.compareOp(value1, infix, value2, false, false) on primitives and null
CallCompareOp ==
    /\ pc = "start"
    /\ \E v1 \in PrimitiveOperands \cup {Null, Undefined},
          v2 \in PrimitiveOperands \cup {Null, Undefined}, infix \in CompareOps :
          /\ call' = [f |-> "compareOp", a |-> v1, infix |-> infix, b |-> v2]
          /\ res' = CompareOp(v1, infix, v2, FALSE, FALSE)
    /\ pc' = "done"
    /\ UNCHANGED <<errorMap, nextId, made, logs, invoked, position, async, isTest>>

\* how many infix operators a formula of the model has, at most
MaxInfixes == 3

\* the operand lists the formulas are built from: a formula with n infixes
\* takes the first n + 1 operands of a list (lists repeat from their start)
OperandLists ==
    << <<Plain(Num(2)), Plain(Num(3)), Plain(Num(4)), Plain(Num(2))>>,
       <<Operand(<<"-">>, Num(2), FALSE), Plain(Num(2)), Plain(Num(3)), Plain(Num(1))>>,
       <<Plain(Num(1)), Plain(Num(2)), Plain(Num(3)), Plain(Str(<<"1", "5">>))>>,
       <<Plain(Bool(TRUE)), Operand(<<"-", "-">>, Num(0), FALSE), Plain(DIV0),
         Operand(<<>>, Num(50), TRUE)>> >>

OperandsOf(list, n) ==
    [i \in 1..n |-> OperandLists[list][((i - 1) % Len(OperandLists[list])) + 1]]

\* Parser.formulaWithBinaryOp on a formula o1 i1 o2 ... in on+1
CallFormulaWithBinaryOp ==
    /\ pc = "start"
    /\ \E list \in 1..Len(OperandLists), n \in 1..MaxInfixes :
         \E infixes \in [1..n -> AllInfixes], operands \in {OperandsOf(list, n + 1)} :
            \E st \in {FormulaWithBinaryOp(operands, infixes, HomeContext)} :
                /\ call' = [f |-> "formulaWithBinaryOp", operands |-> operands,
                            infixes |-> infixes, left |-> st]
                /\ res' = RuleOutcome(st)
    /\ pc' = "done"
    /\ UNCHANGED <<errorMap, nextId, made, logs, invoked, position, async, isTest>>

InitOps == InitCall /\ InitEngine

NextOps == CallApplyInfix \/ CallCompareOp \/ CallFormulaWithBinaryOp

SpecOps == InitOps /\ [][NextOps]_vars

----------------------------------------------------------------------------
(* SpecErrors: constructions of FormulaError objects, and equals() *)

\* how many `new FormulaError(...)` expressions a behaviour evaluates, at most
MaxConstructions == 3

\* the codes constructed: a static one, '#ERROR!' and a code of the host's
ConstructedCodes == {"#DIV/0!", "#ERROR!", "#CUSTOM!"}

ConstructedMsgs == {"", "oops"}

\* new FormulaError(code, msg, details): `this` is a new object whatever the
\* constructor returns
Construct ==
    /\ nextId < FirstFreeId + MaxConstructions
    /\ \E code \in ConstructedCodes, hasMsg \in BOOLEAN, msg \in ConstructedMsgs,
          hasDetails \in BOOLEAN :
          /\ hasMsg \/ msg = ""
          /\ \E r \in {FormulaErrorNew(errorMap, nextId, code, hasMsg, msg, hasDetails)} :
                /\ made' = r.obj
                /\ errorMap' = r.map
                /\ res' = Return(r.obj)
          /\ call' = [f |-> "new FormulaError", code |-> code, hasMsg |-> hasMsg,
                      hasDetails |-> hasDetails]
    /\ nextId' = nextId + 1
    /\ pc' = "done"
    /\ UNCHANGED <<logs, invoked, position, async, isTest>>

\* the objects equals() is called on and with: the last object made, the
\* instance registered for its code, a static instance, an unregistered error
\* and a value that is no error
EqualsOperands ==
    {errorMap[c] : c \in DOMAIN errorMap \cap (IF IsFormulaError(made) THEN {made.code} ELSE {})}
    \cup {made, NA, DetailedError, Str(<<"#", "N", "/", "A">>)}

\* a.equals(b)
CallEquals ==
    /\ \E a \in {e \in EqualsOperands : IsFormulaError(e)}, b \in EqualsOperands :
          /\ call' = [f |-> "equals", a |-> a, b |-> b]
          /\ res' = Return(Bool(ErrEquals(a, b)))
    /\ pc' = "done"
    /\ UNCHANGED <<errorMap, nextId, made, logs, invoked, position, async, isTest>>

InitErrors == InitCall /\ InitEngine

NextErrors == Construct \/ CallEquals

SpecErrors == InitErrors /\ [][NextErrors]_vars

----------------------------------------------------------------------------
(* SpecRefs: the reference operators applied to bounded lists of operands *)

\* how many operands a reference operator is given, at most
MaxRefs == 3

\* operands of the intersection: cells and ranges with and without a sheet, a
\* whole column, an error and a value that is no reference
IntersectOperands ==
    {Cell(NoSheet, 2, 2), Cell("Sheet2", 2, 2), Range(NoSheet, 1, 1, 3, 3),
     Range(NoSheet, 2, 2, 4, 4), Range(NoSheet, 3, 1, 4, 2), Range("Sheet2", 1, 1, 3, 3),
     Range("Sheet2", 2, 1, 2, 4), ParseCol(2), REF, Num(5)}

\* operands of the range operator: cells, a row number, whole columns, ranges
\* (a parenthesised range, a named range), an error and a text
RangeOperands ==
    {Cell(NoSheet, 2, 2), Cell(NoSheet, 3, 1), Cell(NoSheet, 1, 4), Num(3), Num(1),
     ParseCol(2), ParseCol(4), Range(NoSheet, 1, 1, 2, 2), Range("Sheet2", 2, 3, 3, 4),
     REF, Str(<<"a">>)}

\* Utils.applyIntersect(refs) as formulaWithIntersect calls it: two refs or more
CallApplyIntersect ==
    /\ pc = "start"
    /\ \E n \in 2..MaxRefs : \E refs \in [1..n -> IntersectOperands] :
          /\ call' = [f |-> "applyIntersect", refs |-> refs]
          /\ res' = ApplyIntersect(refs)
    /\ pc' = "done"
    /\ UNCHANGED <<errorMap, nextId, made, logs, invoked, position, async, isTest>>

\* Utils.applyRange(refs) as formulaWithRange calls it: two refs or more
CallApplyRange ==
    /\ pc = "start"
    /\ \E n \in 2..MaxRefs : \E refs \in [1..n -> RangeOperands] :
          /\ call' = [f |-> "applyRange", refs |-> refs]
          /\ res' = ApplyRange(refs)
    /\ pc' = "done"
    /\ UNCHANGED <<errorMap, nextId, made, logs, invoked, position, async, isTest>>

InitRefs == InitCall /\ InitEngine

NextRefs == CallApplyIntersect \/ CallApplyRange

SpecRefs == InitRefs /\ [][NextRefs]_vars

----------------------------------------------------------------------------
(* Spec: an engine of the modelled host; parse, parseAsync, callFunction    *)
(* and checkFormulaResult on bounded inputs                                 *)

\* a formulaWithBinaryOp of one operand without prefix, percent or infix
Top(atom) == BinaryNode(<<Plain(atom)>>, <<>>)

\* a formulaWithBinaryOp o1 infix o2 of plain operands
Binary(atom1, infix, atom2) == BinaryNode(<<Plain(atom1), Plain(atom2)>>, <<infix>>)

Number1 == NumberNode(<<"1">>)
Number2 == NumberNode(<<"2">>)
Number0 == NumberNode(<<"0">>)
Number1_5 == NumberNode(<<"1", ".", "5">>)
StringAb == StringNode(<<"\"", "a", "b", "\"">>)
CellA1 == CellNode(<<"A">>, <<"1">>)
CellA2 == CellNode(<<"A">>, <<"2">>)
CellA3 == CellNode(<<"A">>, <<"3">>)
CellB2 == CellNode(<<"B">>, <<"2">>)
CellD4 == CellNode(<<"D">>, <<"4">>)

\* the exceptions of the recognition engine on the texts below, with the
\* library's messages abbreviated
NoViableAlt(column) ==
    [notAllInputParsed |-> FALSE, startLine |-> 1, startColumn |-> column,
     message |-> "Expecting: one of these possible Token sequences"]
Mismatched(column) ==
    [notAllInputParsed |-> FALSE, startLine |-> 1, startColumn |-> column,
     message |-> "Expecting token of type --> CloseParen <-- but found --> '' <--"]
NotAllInputParsed(column) ==
    [notAllInputParsed |-> TRUE, startLine |-> 1, startColumn |-> column,
     message |-> "Redundant input, expecting EOF but found: )"]
Unexpected(column) ==
    [line |-> 1, column |-> column,
     message |-> "unexpected character: ->~<- at offset: 1, skipped 1 characters."]

\* a text that parses without an exception
Wellformed(inputText, tree) == Formula(inputText, <<>>, <<tree>>, <<>>)

\* the formula texts parse is called with
Formulas ==
    << Formula("", <<>>, <<>>, <<>>),
       Formula("1~", <<Unexpected(2)>>, <<>>, <<>>),
       Formula("1+", <<>>, <<>>, <<NoViableAlt(2)>>),
       Formula("(1", <<>>, <<>>, <<Mismatched(2)>>),
       Formula("1+2)", <<>>, <<Binary(Number1, "+", Number2)>>, <<NotAllInputParsed(4)>>),
       Formula("1/0)", <<>>, <<Binary(Number1, "/", Number0)>>, <<NotAllInputParsed(4)>>),
       Wellformed("1 2", Top(IntersectNode(<<Number1, Number2>>))),
       Wellformed("1+2", Binary(Number1, "+", Number2)),
       Wellformed("1/0", Binary(Number1, "/", Number0)),
       Wellformed("-1.5%", BinaryNode(<<Operand(<<"-">>, Number1_5, TRUE)>>, <<>>)),
       Wellformed("\"ab\"&1", Binary(StringAb, "&", Number1)),
       Wellformed("(1+2)*2",
                  Binary(ParenNode(<<Binary(Number1, "+", Number2)>>), "*", Number2)),
       Wellformed("TRUE", Top(BooleanNode("TRUE"))),
       Wellformed("#n/a", Top(ErrorNode("#n/a"))),
       Wellformed("A1", Top(CellA1)),
       Wellformed("D4", Top(CellD4)),
       Wellformed("Sheet2!D4", Top(SheetNode("Sheet2", CellD4))),
       Wellformed("A1+1", Binary(CellA1, "+", Number1)),
       Wellformed("Sheet2!A1", Top(SheetNode("Sheet2", CellA1))),
       Wellformed("Sheet2!1", Top(SheetNode("Sheet2", Number1))),
       Wellformed("A1:A3", Top(RangeNode(<<CellA1, CellA3>>))),
       Wellformed("A1:B2", Top(RangeNode(<<CellA1, CellB2>>))),
       Wellformed("Sheet2!A1:A3", Top(SheetNode("Sheet2", RangeNode(<<CellA1, CellA3>>)))),
       Wellformed("(A1,B2)", Top(ParenNode(<<Top(CellA1), Top(CellB2)>>))),
       Wellformed("{1,2;0,1.5}",
                  Top(ArrayNode(<< <<Number1, Number2>>, <<Number0, Number1_5>> >>))),
       Wellformed("{1,2;0}", Top(ArrayNode(<< <<Number1, Number2>>, <<Number0>> >>))),
       Wellformed("ARGS((A1))", Top(CallNode("ARGS", <<Top(ParenNode(<<Top(CellA1)>>))>>))),
       Wellformed("ARGS((A1,B2))",
                  Top(CallNode("ARGS", <<Top(ParenNode(<<Top(CellA1), Top(CellB2)>>))>>))),
       Wellformed("ARGS((B2,A1:A3,Sheet2!A1))",
                  Top(CallNode("ARGS",
                               <<Top(ParenNode(<<Top(CellB2), Top(RangeNode(<<CellA1, CellA3>>)),
                                                 Top(SheetNode("Sheet2", CellA1))>>))>>))),
       Wellformed("ARGS((1,A1))",
                  Top(CallNode("ARGS", <<Top(ParenNode(<<Top(Number1), Top(CellA1)>>))>>))),
       Wellformed("ROUND(1.5,)", Top(CallNode("ROUND", <<Top(Number1_5), Hole>>))),
       Wellformed("round(1.5,0)", Top(CallNode("round", <<Top(Number1_5), Top(Number0)>>))),
       Wellformed("ROUND(A1)", Top(CallNode("ROUND", <<Top(CellA1)>>))),
       Wellformed("SUMIF(A1:A2,1,)",
                  Top(CallNode("SUMIF", <<Top(RangeNode(<<CellA1, CellA2>>)),
                                          Top(Number1), Hole>>))),
       Wellformed("LEN(\"ab\")", Top(CallNode("LEN", <<Top(StringAb)>>))),
       Wellformed("_xlfn.LEN(1,)", Top(CallNode("_xlfn.LEN", <<Top(Number1), Hole>>))),
       Wellformed("ISBLANK(A1)", Top(CallNode("ISBLANK", <<Top(CellA1)>>))),
       Wellformed("ISERROR(RAISE())",
                  Top(CallNode("ISERROR", <<Top(CallNode("RAISE", <<>>))>>))),
       Wellformed("1+RAISE()", Binary(Number1, "+", CallNode("RAISE", <<>>))),
       Wellformed("FAIL()", Top(CallNode("FAIL", <<>>))),
       Wellformed("NOTHING()", Top(CallNode("NOTHING", <<>>))),
       Wellformed("LATER()", Top(CallNode("LATER", <<>>))),
       Wellformed("FOO()", Top(CallNode("FOO", <<>>))),
       Wellformed("FOO()+FOO()", Binary(CallNode("FOO", <<>>), "+", CallNode("FOO", <<>>))),
       Wellformed("ARGS(RAISE(),LEN(\"ab\"))",
                  Top(CallNode("ARGS", <<Top(CallNode("RAISE", <<>>)),
                                         Top(CallNode("LEN", <<Top(StringAb)>>))>>))),
       Wellformed("ARGS(1/0,#n/a,A1)",
                  Top(CallNode("ARGS", <<Binary(Number1, "/", Number0),
                                         Top(ErrorNode("#n/a")), Top(CellA1)>>))),
       Wellformed("ISERROR(1/0)", Top(CallNode("ISERROR", <<Binary(Number1, "/", Number0)>>))),
       Wellformed("ARGS()", Top(CallNode("ARGS", <<>>))),
       Wellformed("ARGS(,)", Top(CallNode("ARGS", <<Hole, Hole>>))),
       Wellformed("ARGS(1,)", Top(CallNode("ARGS", <<Top(Number1), Hole>>))),
       Wellformed("ARGS(,1)", Top(CallNode("ARGS", <<Hole, Top(Number1)>>))),
       Wellformed("ARGS(1,,2)", Top(CallNode("ARGS", <<Top(Number1), Hole, Top(Number2)>>))),
       Wellformed("ARGS(,,1,)", Top(CallNode("ARGS", <<Hole, Hole, Top(Number1), Hole>>))) >>

\* the formula texts parseAsync is called with: texts whose function calls
\* run in the order of the text (at most one call outside an argument list,
\* and argument lists whose calls take no arguments)
AsyncFormulas ==
    << Formula("", <<>>, <<>>, <<>>),
       Formula("1~", <<Unexpected(2)>>, <<>>, <<>>),
       Formula("1+", <<>>, <<>>, <<NoViableAlt(2)>>),
       Formula("1+2)", <<>>, <<Binary(Number1, "+", Number2)>>, <<NotAllInputParsed(4)>>),
       Formula("1/0)", <<>>, <<Binary(Number1, "/", Number0)>>, <<NotAllInputParsed(4)>>),
       Wellformed("1+2", Binary(Number1, "+", Number2)),
       Wellformed("A1", Top(CellA1)),
       Wellformed("-A1", BinaryNode(<<Operand(<<"-">>, CellA1, FALSE)>>, <<>>)),
       Wellformed("ROUND(1.5,)", Top(CallNode("ROUND", <<Top(Number1_5), Hole>>))),
       Wellformed("LATER()", Top(CallNode("LATER", <<>>))),
       Wellformed("1+LATER()", Binary(Number1, "+", CallNode("LATER", <<>>))),
       Wellformed("RAISE()", Top(CallNode("RAISE", <<>>))),
       Wellformed("ARGS(RAISE(),LATER())",
                  Top(CallNode("ARGS", <<Top(CallNode("RAISE", <<>>)),
                                         Top(CallNode("LATER", <<>>))>>))),
       Wellformed("ARGS(1/0,#n/a,A1)",
                  Top(CallNode("ARGS", <<Binary(Number1, "/", Number0),
                                         Top(ErrorNode("#n/a")), Top(CellA1)>>))),
       Wellformed("REJECT()", Top(CallNode("REJECT", <<>>))),
       Wellformed("ISERROR(REJECT())",
                  Top(CallNode("ISERROR", <<Top(CallNode("REJECT", <<>>))>>))),
       Wellformed("1+REJECT()", Binary(Number1, "+", CallNode("REJECT", <<>>))),
       Wellformed("FAIL()", Top(CallNode("FAIL", <<>>))),
       Wellformed("FOO()", Top(CallNode("FOO", <<>>))) >>

\* the positions parse is given: none, a cell of the first sheet, a cell of
\* the second sheet
Positions == {<<>>, HomePosition, <<[sheet |-> "Sheet2", row |-> 2, col |-> 2]>>}

\* the names callFunction is called with
CalledNames ==
    {"ROUND", "round", "LEN", "_xlfn.LEN", "ISBLANK", "ISERROR", "SUMIF", "ARGS",
     "RAISE", "FAIL", "NOTHING", "LATER", "REJECT", "CTX", "CHOOSE", "FOO", "_xlfn.FOO"}

\* the argument lists callFunction is called with, as the rule `arguments`
\* can hand them over
CalledArgs ==
    { <<>>, <<Rat(3, 2), Null>>, <<Rat(5, 2), Num(0)>>, <<Str(<<"a", "b">>)>>,
      <<NA>>, <<Cell(NoSheet, 1, 1)>>, <<Cell("Sheet2", HostRows, HostCols)>>,
      <<Range(NoSheet, 1, 1, 2, 1), Num(1), Null>>, <<Num(1), Null, Num(2)>> }

\* argument lists whose values are promises, as function calls in an argument
\* list leave them in async mode
CalledPromises ==
    { <<Promise(Return(Num(1)))>>, <<Promise(Throw(VALUE))>>,
      <<Promise(Return(Rat(3, 2))), Promise(Throw(JsError("boom")))>> }

\* the results checkFormulaResult is called with
CheckedResults ==
    { Num(1), Rat(3, 2), NaN, Infinity(1), Infinity(-1), Str(<<"a">>), Bool(TRUE),
      Undefined, DIV0, ERROR("boom"),
      Cell(NoSheet, 1, 1), Cell("Sheet2", 1, 1), Cell(NoSheet, HostRows, HostCols),
      Range(NoSheet, 1, 1, 3, 1), Range("Sheet2", 1, 1, 3, 1), Range("Sheet2", 2, 2, 2, 2),
      Range(NoSheet, 1, 1, 2, 2), Range("Sheet2", 1, 1, 1, 2),
      Arr(<< <<Num(7), Num(8)>>, <<Num(9), NA>> >>), Arr(<< <<Str(<<"a">>)>> >>),
      Collection(<<Num(11)>>, <<Cell("Sheet1", 1, 1)>>), TestResult,
      Promise(Return(Num(1))) }

\* parse(inputText, position, allowReturnArray) on a fresh engine
CallParse ==
    /\ pc = "start"
    /\ \E i \in 1..Len(Formulas), pos \in Positions, allowReturnArray \in BOOLEAN :
         \E r \in {Parse(Formulas[i], pos, allowReturnArray, Effects(<<>>, logs), isTest)} :
            /\ call' = [f |-> "parse", formula |-> Formulas[i], position |-> pos,
                        allowReturnArray |-> allowReturnArray]
            /\ res' = r.out
            /\ invoked' = r.fx.calls
            /\ logs' = r.fx.logs
            /\ position' = IF Formulas[i].text = "" THEN position ELSE pos
            /\ async' = IF Formulas[i].text = "" THEN async ELSE FALSE
    /\ pc' = "parsed"
    /\ UNCHANGED <<errorMap, nextId, made, isTest>>

\* parseAsync(inputText, position, allowReturnArray) on a fresh engine, up to
\* the settlement of its promise
CallParseAsync ==
    /\ pc = "start"
    /\ \E i \in 1..Len(AsyncFormulas), pos \in Positions, allowReturnArray \in BOOLEAN :
         \E r \in {ParseAsync(AsyncFormulas[i], pos, allowReturnArray,
                              Effects(<<>>, logs), isTest)} :
            /\ call' = [f |-> "parseAsync", formula |-> AsyncFormulas[i], position |-> pos,
                        allowReturnArray |-> allowReturnArray]
            /\ res' = r.out
            /\ invoked' = r.fx.calls
            /\ logs' = r.fx.logs
            /\ position' = IF AsyncFormulas[i].text = "" THEN position ELSE pos
            /\ async' = IF AsyncFormulas[i].text = "" THEN async ELSE TRUE
    /\ pc' = "parsed"
    /\ UNCHANGED <<errorMap, nextId, made, isTest>>

\* callFunction(name, args), on a fresh engine or in the mode and at the
\* position the last parse left
CallCallFunction ==
    /\ pc \in {"start", "parsed"}
    /\ \E name \in CalledNames,
          args \in CalledArgs \cup (IF async THEN CalledPromises ELSE {}) :
         \E r \in {CallFunction(name, args, Effects(<<>>, logs),
                                Context(position, async, isTest))} :
            /\ call' = [f |-> "callFunction", name |-> name, args |-> args]
            /\ res' = r.out
            /\ invoked' = r.fx.calls
            /\ logs' = r.fx.logs
    /\ pc' = "done"
    /\ UNCHANGED <<errorMap, nextId, made, position, async, isTest>>

\* checkFormulaResult(result, allowReturnArray), on a fresh engine or at the
\* position the last parse left
CallCheckFormulaResult ==
    /\ pc \in {"start", "parsed"}
    /\ \E result \in CheckedResults, allowReturnArray \in BOOLEAN :
         /\ call' = [f |-> "checkFormulaResult", result |-> result,
                     allowReturnArray |-> allowReturnArray]
         /\ res' = CheckFormulaResult(result, allowReturnArray,
                                      Context(position, async, isTest))
    /\ invoked' = <<>>
    /\ pc' = "done"
    /\ UNCHANGED <<errorMap, nextId, made, logs, position, async, isTest>>

\* the engine after `new FormulaParser(config)`, config.isTest set or not
Init ==
    /\ InitCall
    /\ errorMap = StaticErrorMap
    /\ nextId = FirstFreeId
    /\ made = Null
    /\ logs = <<>>
    /\ invoked = <<>>
    /\ position = <<>>
    /\ async = FALSE
    /\ isTest \in BOOLEAN

Next == CallParse \/ CallParseAsync \/ CallCallFunction \/ CallCheckFormulaResult

Spec == Init /\ [][Next]_vars

----------------------------------------------------------------------------
(* SpecProbe: an engine probed for the functions it lacks, by any sequence *)
(* of callFunction, parse and parseAsync on bounded inputs                  *)

\* the names callFunction is probed with: three that are not registered, one
\* registered function that returns undefined, one built-in
ProbedNames == {"FOO", "_xlfn.FOO", "BAR", "NOTHING", "LEN"}

ProbedArgs == {<<>>, <<Str(<<"a", "b">>)>>}

\* the formulas parsed between the probes
ProbeFormulas ==
    << Wellformed("FOO()", Top(CallNode("FOO", <<>>))),
       Wellformed("BAR()+FOO()", Binary(CallNode("BAR", <<>>), "+", CallNode("FOO", <<>>))),
       Wellformed("NOTHING()", Top(CallNode("NOTHING", <<>>))),
       Wellformed("1+2", Binary(Number1, "+", Number2)) >>

\* callFunction(name, args) in the mode the engine is in
ProbeCallFunction ==
    /\ \E name \in ProbedNames, args \in ProbedArgs :
         \E r \in {CallFunction(name, args, Effects(<<>>, logs),
                                Context(position, async, isTest))} :
            /\ call' = [f |-> "callFunction", name |-> name, args |-> args]
            /\ res' = r.out
            /\ invoked' = r.fx.calls
            /\ logs' = r.fx.logs
    /\ pc' = "done"
    /\ UNCHANGED <<errorMap, nextId, made, position, async, isTest>>

\* parse(inputText, position)
ProbeParse ==
    /\ \E i \in 1..Len(ProbeFormulas), pos \in {<<>>, HomePosition} :
         \E r \in {Parse(ProbeFormulas[i], pos, FALSE, Effects(<<>>, logs), isTest)} :
            /\ call' = [f |-> "parse", formula |-> ProbeFormulas[i], position |-> pos,
                        allowReturnArray |-> FALSE]
            /\ res' = r.out
            /\ invoked' = r.fx.calls
            /\ logs' = r.fx.logs
            /\ position' = pos
    /\ async' = FALSE
    /\ pc' = "done"
    /\ UNCHANGED <<errorMap, nextId, made, isTest>>

\* parseAsync(inputText, position), up to the settlement of its promise
ProbeParseAsync ==
    /\ \E i \in 1..Len(ProbeFormulas), pos \in {<<>>, HomePosition} :
         \E r \in {ParseAsync(ProbeFormulas[i], pos, FALSE, Effects(<<>>, logs), isTest)} :
            /\ call' = [f |-> "parseAsync", formula |-> ProbeFormulas[i], position |-> pos,
                        allowReturnArray |-> FALSE]
            /\ res' = r.out
            /\ invoked' = r.fx.calls
            /\ logs' = r.fx.logs
            /\ position' = pos
    /\ async' = TRUE
    /\ pc' = "done"
    /\ UNCHANGED <<errorMap, nextId, made, isTest>>

NextProbe == ProbeCallFunction \/ ProbeParse \/ ProbeParseAsync

SpecProbe == Init /\ [][NextProbe]_vars

----------------------------------------------------------------------------
(* SpecAwait: one call of callFunctionAsync, step by step: the coroutine    *)
(* suspends at each await, and the host settles the promises among the      *)
(* arguments and the promise the function returned at any time, in any      *)
(* order                                                                    *)

\* a promise that is not settled yet
PendingOut == [k |-> "pending", v |-> Undefined]

Pending == Promise(PendingOut)

AwaitedNames == {"ARGS", "LEN", "LATER", "REJECT", "RAISE", "FOO"}

\* argument lists of plain values and pending promises, up to MaxAwaited long
MaxAwaited == 2

AwaitedArguments == UNION {[1..n -> {Num(2), Pending}] : n \in 0..MaxAwaited}

\* what the host settles the promise of an argument with
ArgumentOutcomes == {Return(Num(1)), Return(VALUE), Throw(JsError("boom"))}

\* the frame of callFunctionAsync: awaitedArgs, what _callFunction returned
\* (<<>> before the call), whether a promise it returned is settled
Frame(awaitedArgs, returned, resolved) ==
    [awaitedArgs |-> awaitedArgs, returned |-> returned, resolved |-> resolved]

Resolved_Always(v) == TRUE

\* `await v` can resume: v is no promise, or a settled one
Resolved(v) == IF IsPromise(v) THEN v.out.k # "pending" ELSE TRUE

\* `const res = await this._callFunction(name, awaitedArgs)` up to the
\* suspension: the function is invoked; an exception of _callFunction rejects
\* the promise of callFunctionAsync
InvokeAwaited(name, awaitedArgs) ==
    \E r \in {CallFunctionInner(name, awaitedArgs, Effects(<<>>, logs),
                                Context(position, TRUE, isTest))} :
        /\ invoked' = r.fx.calls
        /\ logs' = r.fx.logs
        /\ IF r.out.k = "throw"
           THEN /\ made' = Frame(awaitedArgs, <<>>, FALSE)
                /\ res' = Promise(r.out)
                /\ pc' = "done"
           ELSE /\ made' = Frame(awaitedArgs, <<r.out.v>>, FALSE)
                /\ res' = Pending
                /\ pc' = "called"

\* callFunction(name, args) in async mode: callFunctionAsync runs up to its
\* first await and returns its promise
StartCallFunctionAsync ==
    /\ pc = "start"
    /\ \E name \in AwaitedNames, args \in AwaitedArguments :
         /\ call' = [f |-> "callFunctionAsync", name |-> name, args |-> args]
         /\ IF args = <<>>
            THEN InvokeAwaited(name, <<>>)
            ELSE /\ made' = Frame(<<>>, <<>>, FALSE)
                 /\ res' = Pending
                 /\ pc' = "awaiting"
                 /\ UNCHANGED <<invoked, logs>>
    /\ async' = TRUE
    /\ UNCHANGED <<errorMap, nextId, position, isTest>>

\* the host settles the promise of an argument
SettleArgument ==
    /\ pc \in {"awaiting", "called", "done"}
    /\ \E i \in 1..Len(call.args), out \in ArgumentOutcomes :
         /\ IsPromise(call.args[i]) /\ call.args[i].out.k = "pending"
         /\ call' = [call EXCEPT !.args[i] = Promise(out)]
    /\ UNCHANGED <<pc, res, errorMap, nextId, made, logs, invoked, position, async, isTest>>

\* `awaitedArgs.push(await arg)` resumes for the next argument; after the
\* last argument the loop ends and the function is called
AwaitArgument ==
    /\ pc = "awaiting"
    /\ \E k \in {Len(made.awaitedArgs) + 1} :
         /\ Resolved(call.args[k])
         /\ IF Await(call.args[k]).k = "throw"
            THEN /\ res' = Promise(Await(call.args[k]))
                 /\ pc' = "done"
                 /\ UNCHANGED <<made, invoked, logs>>
            ELSE IF k = Len(call.args)
            THEN InvokeAwaited(call.name, Append(made.awaitedArgs, Await(call.args[k]).v))
            ELSE /\ made' = [made EXCEPT !.awaitedArgs = Append(@, Await(call.args[k]).v)]
                 /\ UNCHANGED <<pc, res, invoked, logs>>
    /\ UNCHANGED <<call, errorMap, nextId, position, async, isTest>>

\* the promise the function returned settles
SettleReturned ==
    /\ pc = "called"
    /\ IsPromise(made.returned[1]) /\ ~made.resolved
    /\ made' = [made EXCEPT !.resolved = TRUE]
    /\ UNCHANGED <<pc, call, res, errorMap, nextId, logs, invoked, position, async, isTest>>

\* `await this._callFunction(...)` resumes; `return H.checkFunctionResult(res)`
AwaitReturned ==
    /\ pc = "called"
    /\ IF IsPromise(made.returned[1]) THEN made.resolved ELSE TRUE
    /\ res' = IF Await(made.returned[1]).k = "throw"
              THEN Promise(Await(made.returned[1]))
              ELSE Promise(Return(CheckFunctionResult(Await(made.returned[1]).v)))
    /\ pc' = "done"
    /\ UNCHANGED <<call, errorMap, nextId, made, logs, invoked, position, async, isTest>>

NextAwait ==
    \/ StartCallFunctionAsync
    \/ SettleArgument
    \/ AwaitArgument
    \/ SettleReturned
    \/ AwaitReturned

SpecAwait == Init /\ [][NextAwait]_vars

----------------------------------------------------------------------------
(* SpecDep: a DepParser; parse on bounded inputs.  made is this.data,      *)
(* invoked the calls of getCell and getRange since this.data was emptied    *)

\* a reference as it is written in a formula, with its rule invocations
Written1(inputText, node) == [text |-> inputText, node |-> node]

DepAtoms ==
    { Written1("A1", CellA1),
      Written1("B2", CellB2),
      Written1("Sheet1!A1", SheetNode("Sheet1", CellA1)),
      Written1("Sheet2!A1", SheetNode("Sheet2", CellA1)),
      Written1("A1:B2", RangeNode(<<CellA1, CellB2>>)),
      Written1("B2:A1", RangeNode(<<CellB2, CellA1>>)),
      Written1("Sheet2!A1:B2", SheetNode("Sheet2", RangeNode(<<CellA1, CellB2>>))) }

\* the sums of up to MaxDepOperands references
MaxDepOperands == 3

RECURSIVE SumText(_)
SumText(atoms) ==
    IF Len(atoms) = 1 THEN atoms[1].text
    ELSE atoms[1].text \o "+" \o SumText(Tail(atoms))

SumOf(atoms) ==
    Wellformed(SumText(atoms),
               BinaryNode([i \in 1..Len(atoms) |-> Plain(atoms[i].node)],
                          [i \in 1..(Len(atoms) - 1) |-> "+"]))

DepSums == {SumOf(atoms) : atoms \in UNION {[1..n -> DepAtoms] : n \in 1..MaxDepOperands}}

\* the formula texts DepParser.parse is called with
DepFormulas ==
    DepSums \cup
    { Formula("", <<>>, <<>>, <<>>),
      Formula("1~", <<Unexpected(2)>>, <<>>, <<>>),
      Formula("1+", <<>>, <<>>, <<NoViableAlt(2)>>),
      Formula("A1+", <<>>, <<>>, <<NoViableAlt(3)>>),
      Formula("A1+B2)", <<>>, <<Binary(CellA1, "+", CellB2)>>, <<NotAllInputParsed(6)>>),
      Wellformed("1+2", Binary(Number1, "+", Number2)),
      Wellformed("A1+B2*A2", BinaryNode(<<Plain(CellA1), Plain(CellB2), Plain(CellA2)>>,
                                        <<"+", "*">>)),
      Wellformed("-A1%+A1", BinaryNode(<<Operand(<<"-">>, CellA1, TRUE), Plain(CellA1)>>,
                                       <<"+">>)),
      Wellformed("(A1,A1:B2,B2)",
                 Top(ParenNode(<<Top(CellA1), Top(RangeNode(<<CellA1, CellB2>>)),
                                 Top(CellB2)>>))),
      Wellformed("A1:B2 A1:A3",
                 Top(IntersectNode(<<RangeNode(<<CellA1, CellB2>>),
                                     RangeNode(<<CellA1, CellA3>>)>>))),
      Wellformed("FOO(A1:A3,,A2,A3)+A3",
                 Binary(CallNode("FOO", <<Top(RangeNode(<<CellA1, CellA3>>)), Hole,
                                          Top(CellA2), Top(CellA3)>>), "+", CellA3)),
      Wellformed("{1,2;0,1.5}",
                 Top(ArrayNode(<< <<Number1, Number2>>, <<Number0, Number1_5>> >>))) }

\* the positions DepParser.parse is given
DepPositions == {HomePosition, <<[sheet |-> "Sheet2", row |-> 2, col |-> 2]>>}

\* new DepParser(config)
InitDep ==
    /\ InitCall
    /\ errorMap = StaticErrorMap
    /\ nextId = FirstFreeId
    /\ made = <<>>
    /\ logs = <<>>
    /\ invoked = <<>>
    /\ position = <<>>
    /\ async = FALSE
    /\ isTest = FALSE

\* depParser.parse(inputText, position, ignoreError): the host has a parser
\* parse one formula, and another one after a parse that threw
CallDepParse ==
    /\ pc = "start" \/ res.k = "throw"
    /\ \E formula \in DepFormulas, pos \in DepPositions, ignoreError \in BOOLEAN :
         \E r \in {DepParse(formula, pos, ignoreError, Tracked(made, invoked))} :
            /\ call' = [f |-> "depParse", formula |-> formula, position |-> pos,
                        ignoreError |-> ignoreError]
            /\ res' = r.out
            /\ made' = r.fx.data
            /\ invoked' = r.fx.lookups
            /\ position' = IF formula.text = "" THEN position ELSE pos
    /\ pc' = "parsed"
    /\ UNCHANGED <<errorMap, nextId, logs, async, isTest>>

NextDep == CallDepParse

SpecDep == InitDep /\ [][NextDep]_vars

----------------------------------------------------------------------------
(* SpecCells: Utils.parseCellAddress on the images of Cell tokens: one to   *)
(* MaxColumnLetters letters and a row number without a leading zero         *)

\* the Cell token's [A-Za-z]{1,3}
MaxColumnLetters == 3

\* the letters the images are written with (upper case)
CellLetters == {"A", "D", "E", "F", "X", "Z"}

\* the row numbers the images are written with
CellDigits ==
    { <<"1">>, <<"4">>, <<"1", "0", "4", "8", "5", "7", "6">>,
      <<"1", "0", "4", "8", "5", "7", "7">>, <<"9", "9", "9", "9", "9", "9", "9", "9">> }

\* the rule referenceItem on a Cell token: this.utils.parseCellAddress(address)
CallParseCellAddress ==
    /\ pc = "start"
    /\ \E letters \in UNION {[1..n -> CellLetters] : n \in 1..MaxColumnLetters},
          digits \in CellDigits :
         /\ call' = [f |-> "parseCellAddress", letters |-> letters, digits |-> digits]
         /\ res' = Return(ParseCellAddress(letters, digits))
    /\ pc' = "done"
    /\ UNCHANGED <<errorMap, nextId, made, logs, invoked, position, async, isTest>>

NextCells == CallParseCellAddress

SpecCells == Init /\ [][NextCells]_vars

----------------------------------------------------------------------------
(* SpecSuspend: parseAsync on bounded inputs; made is the list of the       *)
(* `await` expressions the call executed                                    *)

\* the atoms of the formulas: constants, references, calls of host functions
\* that return at once, later, rejecting or throwing, with and without
\* arguments
SuspendAtoms ==
    { Written1("1", Number1),
      Written1("A1", CellA1),
      Written1("A1:A3", RangeNode(<<CellA1, CellA3>>)),
      Written1("LEN(\"ab\")", CallNode("LEN", <<Top(StringAb)>>)),
      Written1("LATER()", CallNode("LATER", <<>>)),
      Written1("REJECT()", CallNode("REJECT", <<>>)),
      Written1("FAIL()", CallNode("FAIL", <<>>)),
      Written1("FOO()", CallNode("FOO", <<>>)),
      Written1("ARGS(1,LATER())",
               CallNode("ARGS", <<Top(Number1), Top(CallNode("LATER", <<>>))>>)),
      Written1("ARGS(REJECT(),1)",
               CallNode("ARGS", <<Top(CallNode("REJECT", <<>>)), Top(Number1)>>)),
      Written1("ARGS(-A1,2%)",
               CallNode("ARGS", <<BinaryNode(<<Operand(<<"-">>, CellA1, FALSE)>>, <<>>),
                                  BinaryNode(<<Operand(<<>>, Number2, TRUE)>>, <<>>)>>)) }

\* the atoms without a function call
SuspendConstants == {atom \in SuspendAtoms : atom.node.kind # "Call"}

SuspendPrefixes == {<<>>, <<"-">>, <<"-", "+">>}

SuspendInfixes == {"+", "&", "="}

\* prefixes as they are written
RECURSIVE PrefixText(_)
PrefixText(prefixes) ==
    IF prefixes = <<>> THEN "" ELSE Head(prefixes) \o PrefixText(Tail(prefixes))

\* the formula texts parseAsync is called with: one operand with prefixes and
\* a percent sign or without; two operands around an infix, one function
\* call among them at most; three operands of two precedence levels; texts
\* that do not lex or parse
SuspendFormulas ==
    { Wellformed(PrefixText(prefixes) \o atom.text \o (IF percent THEN "%" ELSE ""),
                 BinaryNode(<<Operand(prefixes, atom.node, percent)>>, <<>>)) :
        prefixes \in SuspendPrefixes, atom \in SuspendAtoms, percent \in BOOLEAN }
    \cup
    { Wellformed(atom1.text \o infix \o atom2.text,
                 Binary(atom1.node, infix, atom2.node)) :
        atom1 \in SuspendConstants, infix \in SuspendInfixes, atom2 \in SuspendAtoms }
    \cup
    { Wellformed("1+2*A1", BinaryNode(<<Plain(Number1), Plain(Number2), Plain(CellA1)>>,
                                      <<"+", "*">>)),
      Formula("", <<>>, <<>>, <<>>),
      Formula("1~", <<Unexpected(2)>>, <<>>, <<>>),
      Formula("1+", <<>>, <<>>, <<NoViableAlt(2)>>),
      Formula("1+2)", <<>>, <<Binary(Number1, "+", Number2)>>, <<NotAllInputParsed(4)>>) }

\* parseAsync(inputText, position, allowReturnArray) on a fresh engine, up to
\* the settlement of its promise
ParseAsyncSuspending ==
    /\ pc = "start"
    /\ \E formula \in SuspendFormulas, allowReturnArray \in BOOLEAN :
         \E r \in {ParseAsync(formula, HomePosition, allowReturnArray,
                              Effects(<<>>, logs), isTest)} :
            /\ call' = [f |-> "parseAsync", formula |-> formula, position |-> HomePosition,
                        allowReturnArray |-> allowReturnArray]
            /\ res' = r.out
            /\ invoked' = r.fx.calls
            /\ logs' = r.fx.logs
            /\ made' = ParseAsyncAwaits(formula, HomePosition, Effects(<<>>, logs), isTest)
            /\ position' = IF formula.text = "" THEN position ELSE HomePosition
            /\ async' = IF formula.text = "" THEN async ELSE TRUE
    /\ pc' = "parsed"
    /\ UNCHANGED <<errorMap, nextId, isTest>>

NextSuspend == ParseAsyncSuspending

SpecSuspend == Init /\ [][NextSuspend]_vars

----------------------------------------------------------------------------
(* SpecHelpers: Prefix.unaryOp, FormulaHelpers.acceptNumber and             *)
(* FormulaHelpers.accept applied to bounded values                          *)

\* arrays: 1x1, 1x2, 2x1, 2x2, and 1x1 arrays of a text that is no number, a
\* numeric text and a boolean
HelperArrays ==
    { Arr(<< <<Num(3)>> >>), Arr(<< <<Num(3), Num(4)>> >>),
      Arr(<< <<Num(3)>>, <<Num(4)>> >>),
      Arr(<< <<Num(3), Num(4)>>, <<Num(5), Num(6)>> >>),
      Arr(<< <<Str(<<"a", "b">>)>> >>), Arr(<< <<Str(<<"2">>)>> >>),
      Arr(<< <<Bool(TRUE)>> >>) }

\* numbers, texts, booleans and arrays
HelperValues == PrimitiveOperands \cup {Rat(3, 2), Str(<<"1", ".", "5">>)} \cup HelperArrays

\* the prefixes formulaWithUnaryOp collects
HelperPrefixes ==
    {<<"+">>, <<"-">>, <<"+", "+">>, <<"-", "-">>, <<"+", "-">>, <<"-", "+", "-">>,
     <<"-", "-", "-">>}

\* Prefix.unaryOp(prefixes, value, isArray) as _applyPrefix calls it: isArray
\* can be set for an array only
CallUnaryOp ==
    /\ pc = "start"
    /\ \E prefixes \in HelperPrefixes, value \in HelperValues \cup {Null, Undefined},
          isArray \in BOOLEAN :
          /\ isArray => IsArray(value)
          /\ call' = [f |-> "unaryOp", prefixes |-> prefixes, value |-> value,
                      isArray |-> isArray]
          /\ res' = UnaryOp(prefixes, value, isArray)
    /\ pc' = "done"
    /\ UNCHANGED <<errorMap, nextId, made, logs, invoked, position, async, isTest>>

\* H.acceptNumber(obj, isArray, allowBoolean)
CallAcceptNumber ==
    /\ pc = "start"
    /\ \E obj \in HelperValues \cup ErrorOperands \cup {Null},
          isArray \in BOOLEAN, allowBoolean \in BOOLEAN :
          /\ call' = [f |-> "acceptNumber", obj |-> obj, isArray |-> isArray,
                      allowBoolean |-> allowBoolean]
          /\ res' = AcceptNumber(obj, isArray, allowBoolean)
    /\ pc' = "done"
    /\ UNCHANGED <<errorMap, nextId, made, logs, invoked, position, async, isTest>>

\* the parameters functions hand to H.accept: a missing one, primitives, the
\* argument objects of _callFunction around a value, an array, an error
AcceptParams ==
    {Null, Undefined, Num(2), Str(<<"a", "b">>), Bool(TRUE), Arr(<< <<Num(3), Num(4)>> >>),
     DIV0, DetailedError, ArgOmitted(Num(0))}
    \cup {ArgPlain(v, FALSE, FALSE, FALSE) : v \in PrimitiveOperands \cup ErrorOperands}
    \cup {ArgPlain(v, TRUE, FALSE, FALSE) : v \in HelperArrays}
    \cup {ArgPreserve(v, FALSE, <<>>) : v \in {Num(2), DIV0, DetailedError}}

AcceptTypes == {"NONE", "NUMBER", "STRING", "BOOLEAN", "NUMBER_NO_BOOLEAN"}

\* defValue: undefined, 0, '' or null
AcceptDefaults == {<<>>, <<Num(0)>>, <<Str(<<>>)>>, <<Null>>}

\* H.accept(param, type, defValue)
CallAccept ==
    /\ pc = "start"
    /\ \E param \in AcceptParams, type \in AcceptTypes, defValue \in AcceptDefaults :
          /\ call' = [f |-> "accept", param |-> param, type |-> type,
                      defValue |-> defValue]
          /\ res' = Accept(param, type, defValue)
    /\ pc' = "done"
    /\ UNCHANGED <<errorMap, nextId, made, logs, invoked, position, async, isTest>>

NextHelpers == CallUnaryOp \/ CallAcceptNumber \/ CallAccept

SpecHelpers == InitOps /\ [][NextHelpers]_vars

----------------------------------------------------------------------------
(* SpecNames: an engine whose host keeps one ref object per defined name    *)
(* and returns it from onVariable; any sequence of parse calls.  made is    *)
(* the host's table of these objects                                        *)

\* the host's defined names: a cell and a range without a sheet, a cell of
\* the second sheet
HostNames ==
    [TOTAL |-> CellRef(NoSheet, Some(1), Some(1)),
     AREA |-> RangeRef(NoSheet, 1, 1, 2, 2),
     RATE |-> CellRef("Sheet2", Some(2), Some(2))]

\* the names the formulas use; the host does not know NONE
UsedNames == {"TOTAL", "AREA", "RATE", "NONE"}

\* a name, alone or behind a sheet prefix
NamedAtoms ==
    {Written1(name, NameNode(name)) : name \in UsedNames}
    \cup {Written1("Sheet2!" \o name, SheetNode("Sheet2", NameNode(name))) : name \in UsedNames}

\* the formula texts: a name as the whole formula, a name plus 1
NamedFormulas ==
    {Wellformed(atom.text, Top(atom.node)) : atom \in NamedAtoms}
    \cup {Wellformed(atom.text \o "+1", Binary(atom.node, "+", Number1)) : atom \in NamedAtoms}

\* new FormulaParser({onVariable: name => table[name], onCell, onRange})
InitNames ==
    /\ InitCall
    /\ errorMap = StaticErrorMap
    /\ nextId = FirstFreeId
    /\ made = HostNames
    /\ logs = <<>>
    /\ invoked = <<>>
    /\ position = <<>>
    /\ async = FALSE
    /\ isTest = FALSE

\* parse(inputText, position, allowReturnArray), one call after the other on
\* the same engine and host
CallParseNamed ==
    /\ \E formula \in NamedFormulas, pos \in Positions, allowReturnArray \in BOOLEAN :
          /\ call' = [f |-> "parse", formula |-> formula, position |-> pos,
                      allowReturnArray |-> allowReturnArray]
          /\ res' = ParseNamed(formula, pos, allowReturnArray, made)
          /\ made' = NamesAfter(formula, pos, allowReturnArray, made)
          /\ position' = pos
    /\ pc' = "parsed"
    /\ UNCHANGED <<errorMap, nextId, logs, invoked, async, isTest>>

NextNames == CallParseNamed

SpecNames == InitNames /\ [][NextNames]_vars

----------------------------------------------------------------------------
(* Properties of the operator algebra, checked under SpecOps *)

\* the operands of the applyInfix call once resolved (a reference read from the host)
ResolvedA == RetrieveRef(call.a, HomeContext)
ResolvedB == RetrieveRef(call.b, HomeContext)

\* C2: for every infix operator applied to resolved operands a and b: if a is
\* a FormulaError the result is a itself; if a is not an error and b is a
\* FormulaError the result is b itself (the same object, message included).
C2_ErrorOperandIsTheResult ==
    (pc = "done" /\ call.f = "applyInfix") =>
        /\ IsFormulaError(ResolvedA) => res = Return(ResolvedA)
        /\ (~IsFormulaError(ResolvedA) /\ IsFormulaError(ResolvedB)) => res = Return(ResolvedB)

\* C2 happens: two different errors meet and the first is the result; and an
\* error read from a cell as second operand is the result
C2_Witness ==
    /\ pc = "done" /\ call.f = "applyInfix"
    /\ call.a = DetailedError /\ call.b = VALUE /\ call.infix = "+"
    /\ res = Return(DetailedError)

\* the precedence level the claim gives an infix: 1 binds tightest
ClaimLevel(op) ==
    CASE op = "^" -> 1
      [] op \in {"*", "/"} -> 2
      [] op \in {"+", "-"} -> 3
      [] op = "&" -> 4
      [] OTHER -> 5

\* the infix applied last: the rightmost one among those of the loosest level
LastApplied(infixes) ==
    CHOOSE k \in 1..Len(infixes) :
        /\ \A j \in 1..Len(infixes) : ClaimLevel(infixes[j]) <= ClaimLevel(infixes[k])
        /\ \A j \in (k + 1)..Len(infixes) : ClaimLevel(infixes[j]) < ClaimLevel(infixes[k])

\* the value of v1 i1 v2 ... in vn+1 read as an expression tree by precedence
\* and left associativity
RECURSIVE TreeEval(_, _)
TreeEval(values, infixes) ==
    IF infixes = <<>> THEN Return(values[1])
    ELSE LET k == LastApplied(infixes)
         IN  CHOOSE out \in
               {IF l.k = "throw" THEN l
                ELSE IF r.k = "throw" THEN r
                ELSE ApplyInfix(l.v, infixes[k], r.v, HomeContext) :
                  l \in {TreeEval(SubSeq(values, 1, k), SubSeq(infixes, 1, k - 1))},
                  r \in {TreeEval(SubSeq(values, k + 1, Len(values)),
                                  SubSeq(infixes, k + 1, Len(infixes)))}} : TRUE

\* C3: a formula with several binary operators evaluates as the tree given by
\* the precedence '^', then '*' '/', then '+' '-', then '&', then the
\* comparisons, left to right within a level; the fold ends with exactly one
\* value and no operator; unary signs apply before '^' (-2^2 is 4) and '&'
\* binds looser than '+' (1&2+3 is "15"; 2+3*4 is 14).
C3_PrecedenceFold ==
    (pc = "done" /\ call.f = "formulaWithBinaryOp" /\ res.k = "return") =>
        /\ \A vals \in {OperandValues(call.operands, HomeContext)} :
              res = TreeEval(vals.values, call.infixes)
        /\ Len(call.left.values) = 1
        /\ call.left.infixes = <<>>
        /\ (call.operands = <<Plain(Num(2)), Plain(Num(3)), Plain(Num(4))>>
              /\ call.infixes = <<"+", "*">>) => res = Return(Num(14))
        /\ (call.operands = <<Operand(<<"-">>, Num(2), FALSE), Plain(Num(2))>>
              /\ call.infixes = <<"^">>) => res = Return(Num(4))
        /\ (call.operands = <<Plain(Num(1)), Plain(Num(2)), Plain(Num(3))>>
              /\ call.infixes = <<"&", "+">>) => res = Return(Str(<<"1", "5">>))

\* C3 happens: 2-3*4^2 is folded from its tightest operator, the last one, to -46
C3_Witness ==
    /\ pc = "done" /\ call.f = "formulaWithBinaryOp"
    /\ call.operands = <<Plain(Num(2)), Plain(Num(3)), Plain(Num(4)), Plain(Num(2))>>
    /\ call.infixes = <<"-", "*", "^">>
    /\ res = Return(Num(-46))
    /\ call.left.values = <<Num(-46)>> /\ call.left.infixes = <<>>

\* the type an operand is compared as: null counts as the number 0
ClaimType(v) == IF v.t \in {"null", "undefined"} THEN "number" ELSE v.t

\* the type ordering boolean > text > number
ClaimRank(type) ==
    CASE type = "boolean" -> 3
      [] type = "string" -> 2
      [] type = "number" -> 1

\* C5: compareOp on two operands of different primitive types (null counting
\* as the number 0): '=' is false, '<>' is true, and '<', '<=', '>', '>=' are
\* decided by the type ordering boolean > text > number alone.
C5_CrossTypeComparison ==
    (pc = "done" /\ call.f = "compareOp" /\ ClaimType(call.a) # ClaimType(call.b)) =>
        LET r1 == ClaimRank(ClaimType(call.a))
            r2 == ClaimRank(ClaimType(call.b))
        IN  res = Return(Bool(
                CASE call.infix = "=" -> FALSE
                  [] call.infix = "<>" -> TRUE
                  [] call.infix = "<" -> r1 < r2
                  [] call.infix = "<=" -> r1 <= r2
                  [] call.infix = ">" -> r1 > r2
                  [] call.infix = ">=" -> r1 >= r2))

\* C5 happens: the text "2" is greater than the number 2, and not equal to it
C5_Witness ==
    /\ pc = "done" /\ call.f = "compareOp"
    /\ call.a = Str(<<"2">>) /\ call.b = Num(2) /\ call.infix = ">"
    /\ res = Return(Bool(TRUE))

----------------------------------------------------------------------------
(* Properties of the FormulaError table, checked under SpecErrors *)

\* the identities of the objects that exist: the registered ones and the last made
KnownIds ==
    {errorMap[c].id : c \in DOMAIN errorMap} \cup
    (IF IsFormulaError(made) THEN {made.id} ELSE {})

\* the step is the construction `new FormulaError(code, msg, details)`
IsConstruction == call'.f = "new FormulaError" /\ nextId' # nextId

\* C4: in every construction, a code with neither message nor details yields
\* the instance registered for the code (the new one when there was none, and
\* FormulaError.DIV0 for '#DIV/0!'); a message or details yield a fresh
\* instance and leave the table unchanged; no step replaces or removes an entry
\* of the table; and equals() is true exactly when the other is a FormulaError
\* of the same code.
C4_SingletonTable ==
    [][ /\ \A c \in DOMAIN errorMap : c \in DOMAIN errorMap' /\ errorMap'[c] = errorMap[c]
        /\ (IsConstruction /\ ~call'.hasMsg /\ ~call'.hasDetails) =>
              /\ made' = errorMap'[call'.code]
              /\ call'.code \in DOMAIN errorMap => (made' = errorMap[call'.code] /\ errorMap' = errorMap)
              /\ call'.code \notin DOMAIN errorMap => made'.id \notin KnownIds
              /\ call'.code = "#DIV/0!" => made' = DIV0
              /\ DOMAIN errorMap' = DOMAIN errorMap \cup {call'.code}
        /\ (IsConstruction /\ (call'.hasMsg \/ call'.hasDetails)) =>
              /\ made'.id \notin KnownIds
              /\ made'.code = call'.code
              /\ errorMap' = errorMap
        /\ call'.f = "equals" =>
              res' = Return(Bool(call'.b.t = "error" /\ call'.b.code = call'.a.code))
      ]_vars

\* C4 happens: a code first registered by the second construction is handed
\* out again by a later plain construction, after one with details in between
C4_Witness ==
    /\ call.f = "new FormulaError" /\ call.code = "#CUSTOM!"
    /\ ~call.hasMsg /\ ~call.hasDetails
    /\ nextId = FirstFreeId + MaxConstructions
    /\ "#CUSTOM!" \in DOMAIN errorMap
    /\ made = errorMap["#CUSTOM!"]
    /\ made.id < nextId - 1

----------------------------------------------------------------------------
(* Properties of the reference operators, checked under SpecRefs *)

\* the operand is a reference to a cell or to a range
IsCellOrRange(v) == HasRef(v) /\ ~IsWholeRowOrCol(v.ref)

\* the cells a cell or range reference covers
CellsOf(v) ==
    IF IsSome(v.ref.from)
    THEN {<<r, c>> : r \in v.ref.from[1].row .. v.ref.to[1].row,
                     c \in v.ref.from[1].col .. v.ref.to[1].col}
    ELSE {<<v.ref.row[1], v.ref.col[1]>>}

\* the cells common to all the operands of the call
CommonCells == {rc \in CellsOf(call.refs[1]) : \A i \in DOMAIN call.refs : rc \in CellsOf(call.refs[i])}

\* all the operands carry the sheet of the first (an absent sheet being a
\* sheet of its own)
OneSheet == \A i \in DOMAIN call.refs : call.refs[i].ref.sheet = call.refs[1].ref.sheet

IsRangeOperand(v) == HasRef(v) \/ (v.t = "number" /\ v.d = 1)

\* the rectangle an operand of ':' covers
OperandBox(v) ==
    IF v.t = "number" THEN Box(v.n, v.n, 1, MAX_COLUMN)
    ELSE IF IsSome(v.ref.from)
    THEN Box(v.ref.from[1].row, v.ref.to[1].row, v.ref.from[1].col, v.ref.to[1].col)
    ELSE Box(IF IsSome(v.ref.row) THEN v.ref.row[1] ELSE 1,
             IF IsSome(v.ref.row) THEN v.ref.row[1] ELSE MAX_ROW,
             IF IsSome(v.ref.col) THEN v.ref.col[1] ELSE 1,
             IF IsSome(v.ref.col) THEN v.ref.col[1] ELSE MAX_COLUMN)

\* the smallest rectangle that contains every operand of the call
CoverBox ==
    LET boxes == {OperandBox(call.refs[i]) : i \in DOMAIN call.refs}
    IN  Box(CHOOSE m \in {b.minRow : b \in boxes} : \A b \in boxes : m <= b.minRow,
            CHOOSE m \in {b.maxRow : b \in boxes} : \A b \in boxes : m >= b.maxRow,
            CHOOSE m \in {b.minCol : b \in boxes} : \A b \in boxes : m <= b.minCol,
            CHOOSE m \in {b.maxCol : b \in boxes} : \A b \in boxes : m >= b.maxCol)

\* the rectangle of a returned reference
ResultBox(v) ==
    IF IsSome(v.ref.from)
    THEN Box(v.ref.from[1].row, v.ref.to[1].row, v.ref.from[1].col, v.ref.to[1].col)
    ELSE Box(v.ref.row[1], v.ref.row[1], v.ref.col[1], v.ref.col[1])

\* C7: the range operator applied to cell references, whole rows, whole
\* columns and references that are themselves ranges returns the smallest
\* rectangle that contains every operand, with from.row <= to.row and
\* from.col <= to.col.  (Refuted: an operand that is itself a range widens the
\* result to the full sheet.)
C7_RangeIsSmallestCover ==
    (pc = "done" /\ call.f = "applyRange"
       /\ \A i \in DOMAIN call.refs : IsRangeOperand(call.refs[i])) =>
        /\ res.k = "return" /\ HasRef(res.v)
        /\ ResultBox(res.v) = CoverBox
        /\ ResultBox(res.v).minRow <= ResultBox(res.v).maxRow
        /\ ResultBox(res.v).minCol <= ResultBox(res.v).maxCol

----------------------------------------------------------------------------
(* Properties of the engine, checked under Spec *)

\* the last call made a function of the host's config throw an exception
\* that is no FormulaError
HostFunctionThrew == \E i \in 1..Len(invoked) : invoked[i].name = "FAIL"

\* C1: for every non-empty formula text, when the host does not throw,
\* parse does not throw: a syntax error, a call to a function that is not in
\* the registry (outside test mode) or a failure inside an operator is
\* delivered as a returned FormulaError; only the empty string makes parse
\* throw.  (Refuted: parse throws the #ERROR! it builds for a lexing error, a
\* syntax error, an unregistered function and an operator failure.)
C1_ParseNeverThrows ==
    (call.f = "parse" /\ call.formula.text # "" /\ ~HostFunctionThrew) =>
        /\ res.k = "return"
        /\ (call.formula.errors # <<>> \/ call.formula.lexErrors # <<>>) =>
               IsFormulaError(res.v)

\* the objects among the results handed to checkFormulaResult
IsObject(v) == v.t \in {"error", "ref", "array", "collection", "promise"}

\* the value of the cell (row, col) on the sheet a reference names, or on the
\* sheet of the position when it names none
CellValueOn(sheet, row, col, pos) ==
    OnCell(WithPositionSheet(CellRef(sheet, Some(row), Some(col)), pos))

\* what C8 lets checkFormulaResult(result, false) return for an object
NoArrayResult(result, pos) ==
    IF IsFormulaError(result) THEN result
    ELSE IF IsCellRef(result) /\ IsSome(result.ref.row) /\ IsSome(result.ref.col)
    THEN CellValueOn(result.ref.sheet, result.ref.row[1], result.ref.col[1], pos)
    ELSE IF IsRangeRef(result) /\ result.ref.from[1].col = result.ref.to[1].col
    THEN CellValueOn(result.ref.sheet, result.ref.from[1].row, result.ref.from[1].col, pos)
    ELSE IF IsArray(result) THEN result.a[1][1]
    ELSE VALUE

\* C8: checkFormulaResult with allowReturnArray = false never returns a
\* reference, an array or a Collection: a single-cell reference is replaced by
\* that cell's value; a range reference with from.col = to.col by the value of
\* its top cell on the range's own sheet; an Array2D by its element [0][0];
\* any other object gives #VALUE!; a FormulaError is returned unchanged.
\* (Refuted: the top cell of a one-column range is read on the sheet of the
\* position, not on the range's sheet.)
C8_NoArrayResultIsScalar ==
    (call.f = "checkFormulaResult" /\ ~call.allowReturnArray /\ IsObject(call.result)) =>
        /\ res = Return(NoArrayResult(call.result, position))
        /\ res.v.t \notin {"ref", "array", "collection"}

\* the formula is one function call: the node of the call
IsOneCall(formula) ==
    /\ formula.tree # <<>>
    /\ Len(formula.tree[1].operands) = 1
    /\ formula.tree[1].operands[1].atom.kind = "Call"

CallOf(formula) == formula.tree[1].operands[1].atom

\* the function of a one-call formula was invoked: the last invocation is
\* its (the calls in its argument list come first)
WasInvoked(formula) ==
    /\ invoked # <<>>
    /\ invoked[Len(invoked)].name = ToUpperCase(StripXlfn(CallOf(formula).name))

\* the arguments it received
Received == invoked[Len(invoked)].args

\* C9: an empty slot in a function's argument list (between two commas or
\* after the last comma) reaches the function as an omitted argument whose
\* value is 0 for every function of the null-as-zero set (IF and SUMIF
\* included) and "" for every other function; the number and positions of the
\* other arguments are unchanged.  (Refuted: SUMIF receives the raw null, and
\* the empty slots in front of the first argument are dropped.)
C9_EmptySlotIsOmittedArgument ==
    (call.f \in {"parse", "parseAsync"} /\ IsOneCall(call.formula)
       /\ WasInvoked(call.formula)) =>
        /\ Len(Received) = Len(CallOf(call.formula).slots)
        /\ \A i \in 1..Len(Received) :
              CallOf(call.formula).slots[i] = Hole =>
                  Received[i] = ArgOmitted(IF invoked[Len(invoked)].name \in FunsNullAs0
                                           THEN Num(0) ELSE Str(<<>>))

\* what the function of the last callFunction raised, if it raised: <<e>> for
\* a thrown e and, in async mode, for a promise rejected with e; <<>> otherwise
Raised(body) ==
    IF body.k = "throw" THEN <<body.v>>
    ELSE IF async /\ IsPromise(body.v) /\ body.v.out.k = "throw" THEN <<body.v.out.v>>
    ELSE <<>>

\* how the last call ended: in async mode, how its promise settled
Settled == IF res.k = "return" /\ async /\ IsPromise(res.v) THEN res.v.out ELSE res

\* the rule of C10 for a function that raised
RaisedIsHandled(raised) ==
    raised # <<>> =>
        IF IsFormulaError(raised[1]) THEN Settled = Return(raised[1])
        ELSE Settled = Throw(raised[1])

\* C10: in either mode, when a registered function raises a FormulaError,
\* callFunction does not raise: the FormulaError becomes the value of the call
\* and the evaluation of the enclosing formula continues with it; when the
\* function raises anything else, the exception leaves callFunction and the
\* top-level parse reports it as #ERROR! with the original message.  (Refuted:
\* in async mode the FormulaError an async function rejects with leaves
\* callFunction as a rejection.)
C10_RaisedFormulaErrorIsValue ==
    /\ (call.f = "callFunction" /\ invoked # <<>>) =>
           RaisedIsHandled(Raised(FunctionBody(invoked[1].name, invoked[1].args)))
    /\ (call.f = "parse" /\ call.formula.text = "ISERROR(RAISE())") =>
           res = Return(Bool(TRUE))
    /\ (call.f = "parseAsync" /\ call.formula.text = "ISERROR(REJECT())") =>
           Settled = Return(Bool(TRUE))
    /\ (call.f \in {"parse", "parseAsync"} /\ call.formula.text = "FAIL()") =>
           /\ IsFormulaError(Settled.v)
           /\ Settled.v.code = "#ERROR!" /\ Settled.v.msg = "boom"

----------------------------------------------------------------------------
(* Properties of the engine's log, checked under SpecProbe *)

\* the name callFunction looks up
LookedUp == ToUpperCase(StripXlfn(call.name))

\* C11: callFunction on a name that is not in the registry (after stripping
\* '_xlfn.' and upper-casing) returns {value: 0, ref: {}} in test mode and,
\* after any sequence of such calls and parses, the log holds that name
\* exactly once; outside test mode it raises the FormulaError #NAME? with the
\* message 'Function X is not implemented.' and the log stays as it was.
C11_UnregisteredFunction ==
    /\ \A i, j \in 1..Len(logs) : logs[i] = logs[j] => i = j
    /\ (call.f = "callFunction" /\ LookedUp \notin Registered) =>
           IF isTest
           THEN /\ Settled = Return(TestResult)
                /\ Cardinality({i \in 1..Len(logs) : logs[i] = LookedUp}) = 1
           ELSE /\ Settled = Throw(ErrObj("#NAME?", FreshId,
                                          "Function " \o LookedUp \o " is not implemented."))
                /\ logs = <<>>

\* C11 happens: FOO is probed as _xlfn.FOO on an engine in test mode whose
\* log already holds NOTHING and FOO from earlier parses
C11_Witness ==
    /\ isTest /\ call.f = "callFunction" /\ call.name = "_xlfn.FOO"
    /\ logs = <<"NOTHING", "FOO">>
    /\ res = Return(TestResult)

----------------------------------------------------------------------------
(* Properties of function calls, checked under Spec *)

IsWritten(slot) == slot # Hole

\* the argument expressions written in the call of a one-call formula
Written(formula) == SelectSeq(CallOf(formula).slots, IsWritten)

\* an argument the function received for a written expression
IsGiven(arg) == arg # Null /\ ~(arg.t = "arg" /\ arg.shape = "omitted")

\* the value an argument the function received carries
Carried(arg) == IF arg.t = "arg" THEN arg.value ELSE arg

\* an argument expression evaluated on its own, in the mode and at the
\* position of the last parse
ArgEval(slot) == Eval(slot, Effects(<<>>, <<>>), Context(position, async, isTest))

\* the evaluation of the argument gave a value (in async mode: a promise that
\* is fulfilled)
GaveValue(r) == r.out.k = "return" /\ Await(r.out.v).k = "return"

\* the value of the argument as the call protocol passes it: as it is to a
\* function that retrieves no data, dereferenced to every other function
ValueGiven(name, r) ==
    IF name \in FunsNeedContextAndNoDataRetrieve THEN Await(r.out.v).v
    ELSE ExtractRefValue(Await(r.out.v).v, Context(position, async, isTest)).val

\* the invocations the written arguments make, one argument after the other
RECURSIVE InvocationsOf(_)
InvocationsOf(slots) ==
    IF slots = <<>> THEN <<>>
    ELSE ArgEval(Head(slots)).fx.calls \o InvocationsOf(Tail(slots))

----------------------------------------------------------------------------
(* Properties of callFunctionAsync, checked under SpecAwait *)

\* C13: in async mode a function call awaits its arguments one at a time in
\* declaration order (the awaited arguments are always the values of a prefix
\* of the argument list whose members have all resolved), invokes the
\* function only after every argument has resolved, and applies
\* checkFunctionResult only after the promise the function returned has
\* resolved.
C13_AwaitsInOrder ==
    call.f = "callFunctionAsync" =>
        /\ Len(made.awaitedArgs) <= Len(call.args)
        /\ \A i \in 1..Len(made.awaitedArgs) :
              /\ ~(IsPromise(call.args[i]) /\ call.args[i].out.k = "pending")
              /\ made.awaitedArgs[i] = Await(call.args[i]).v
        /\ (invoked # <<>> \/ made.returned # <<>>) =>
              Len(made.awaitedArgs) = Len(call.args)
        /\ (res.out.k = "return") =>
              /\ made.returned # <<>>
              /\ IsPromise(made.returned[1]) => made.resolved
              /\ res.out.v = CheckFunctionResult(Await(made.returned[1]).v)

\* C13 happens: LATER was called with two promises settled in reverse order,
\* and its own promise has resolved
C13_Witness ==
    /\ call.f = "callFunctionAsync" /\ call.name = "LATER"
    /\ call.args = <<Promise(Return(VALUE)), Promise(Return(Num(1)))>>
    /\ made.awaitedArgs = <<VALUE, Num(1)>>
    /\ Len(invoked) = 1
    /\ made.resolved
    /\ res = Promise(Return(Num(1)))

----------------------------------------------------------------------------
(* Properties of the dependency parser, checked under SpecDep *)

\* a cell entry lies inside a range entry: on its sheet, within its rows and
\* columns
LiesInside(cell, range) ==
    /\ cell.sheet = range.sheet
    /\ range.from[1].row <= cell.row[1] /\ cell.row[1] <= range.to[1].row
    /\ range.from[1].col <= cell.col[1] /\ cell.col[1] <= range.to[1].col

\* the first call of getCell / getRange for a ref
FirstLookup(ref) ==
    CHOOSE k \in 1..Len(invoked) :
        /\ invoked[k].ref = ref
        /\ \A m \in 1..(k - 1) : invoked[m].ref # ref

\* C14: after DepParser.parse(text, position) the returned list has no two
\* entries that denote the same cell and no two entries that denote the same
\* range, holds no cell entry that lies inside a range entry recorded before
\* it, and lists its entries in the order in which the evaluation first
\* looked them up; every lookup returns the stub 0 (cell) or [[0]] (range).
C14_DependenciesAreDistinctInOrder ==
    (call.f = "depParse" /\ res.k = "return") =>
        /\ res.v = made
        /\ \A i, j \in 1..Len(made) : i < j =>
              /\ made[i] # made[j]
              /\ (IsSome(made[i].from) /\ IsSome(made[j].row)) =>
                    ~LiesInside(made[j], made[i])
        /\ \A i \in 1..Len(made) : \E k \in 1..Len(invoked) : invoked[k].ref = made[i]
        /\ \A i, j \in 1..Len(made) : i < j => FirstLookup(made[i]) < FirstLookup(made[j])
        /\ \A k \in 1..Len(invoked) :
              invoked[k].returned = IF invoked[k].hook = "getCell" THEN Num(0) ELSE RangeStub

\* C14 happens: in A1:B2+B2+B2:A1 the cell and the second range are looked up
\* but the list holds the first range only
C14_Witness ==
    /\ call.f = "depParse" /\ call.formula.text = "A1:B2+B2+B2:A1"
    /\ call.position = HomePosition
    /\ Len(invoked) = 3
    /\ invoked[2].hook = "getCell" /\ invoked[3].hook = "getRange"
    /\ made = <<Range("Sheet1", 1, 1, 2, 2).ref>>
    /\ res = Return(made)


\* the column formatChevrotainError reports for an exception of the parser:
\* that of the redundant token, or the one after the last token consumed
ErrorColumn(error) ==
    IF error.notAllInputParsed THEN error.startColumn ELSE error.startColumn + 1

\* C15: for a formula with a syntax error (e.g. '1+'), both
\* FormulaParser.parse and DepParser.parse (ignoreError = false) produce a
\* FormulaError with code #ERROR! whose message holds the line:col position
\* of the error and a caret line with the caret under that column (column 3
\* for '1+').  (Refuted for DepParser.parse: for '1+' its message is that of
\* a TypeError.)
C15_SyntaxErrorIsLocated ==
    (/\ call.f \in {"parse", "depParse"}
     /\ call.formula.text # "" /\ call.formula.lexErrors = <<>>
     /\ call.formula.errors # <<>>
     /\ call.f = "depParse" => ~call.ignoreError) =>
        /\ res.k = "throw"
        /\ IsFormulaError(res.v)
        /\ res.v.code = "#ERROR!"
        /\ res.v.msg = LocatedMessage(call.formula.text, call.formula.errors[1].startLine,
                                      ErrorColumn(call.formula.errors[1]),
                                      call.formula.errors[1].message)

----------------------------------------------------------------------------
(* Properties of the cell references, checked under SpecCells *)

\* C16: every CellRef the engine builds from formula text (any token the
\* lexer accepts as a Cell: up to three column letters followed by a row
\* number of any length) has 1 <= row <= MAX_ROW and 1 <= col <= MAX_COLUMN.
\* (Refuted: XFE1 has column 16385, A1048577 has row 1048577.)
C16_CellRefWithinSheet ==
    call.f = "parseCellAddress" =>
        /\ 1 <= res.v.ref.row[1] /\ res.v.ref.row[1] <= MAX_ROW
        /\ 1 <= res.v.ref.col[1] /\ res.v.ref.col[1] <= MAX_COLUMN

----------------------------------------------------------------------------
(* Properties of array literals, checked under Spec *)

\* the formula is one array literal
IsArrayLiteral(formula) ==
    /\ formula.tree # <<>>
    /\ Len(formula.tree[1].operands) = 1
    /\ formula.tree[1].operands[1].atom.kind = "Array"

\* at least one row, and all rows of the same length >= 1
IsRectangular(rows) ==
    /\ Len(rows) >= 1
    /\ \A i \in 1..Len(rows) : Len(rows[i]) >= 1 /\ Len(rows[i]) = Len(rows[1])

\* C17: every Array2D produced by an array literal the parser accepts is
\* rectangular: it has at least one row and all its rows have the same length
\* >= 1 (rows are split at ';', cells at ','); a literal whose rows differ in
\* length is not turned into an array value.  (Refuted: {1,2;0} becomes
\* [[1,2],[0]].)
C17_ArrayLiteralIsRectangular ==
    (/\ call.f = "parse" /\ IsArrayLiteral(call.formula)
     /\ call.allowReturnArray
     /\ res.k = "return" /\ IsArray(res.v)) =>
        IsRectangular(res.v.a)

----------------------------------------------------------------------------
(* Properties of error operands of the reference operators, checked under  *)
(* SpecRefs                                                                 *)

\* an operand the operator of the call accepts: a FormulaError, or a
\* reference of the kind the operator works on
IsErrorOrReference(v) ==
    \/ IsFormulaError(v)
    \/ (call.f = "applyRange" /\ IsRangeOperand(v))
    \/ (call.f = "applyIntersect" /\ IsCellOrRange(v))

\* C18: a FormulaError operand of a reference operator is never absorbed
\* into a reference: for the range operator ':' and for the intersection
\* operator, if any operand (first or later) is a FormulaError, the result of
\* the operator is that FormulaError and not a CellRef or RangeRef built from
\* the remaining operands.  (Refuted: only a first operand of the
\* intersection is returned.)
C18_ErrorOperandOfReferenceOperator ==
    (/\ pc = "done" /\ call.f \in {"applyRange", "applyIntersect"}
     /\ \A i \in DOMAIN call.refs : IsErrorOrReference(call.refs[i])
     /\ \E i \in DOMAIN call.refs : IsFormulaError(call.refs[i])) =>
        /\ res.k = "return"
        /\ IsFormulaError(res.v)
        /\ \E i \in DOMAIN call.refs : call.refs[i] = res.v

----------------------------------------------------------------------------
(* Properties of parenthesised lists, checked under Spec *)

\* the formula is one call whose only argument is a parenthesised list
IsListCall(formula) ==
    /\ IsOneCall(formula)
    /\ Len(CallOf(formula).slots) = 1
    /\ CallOf(formula).slots[1] # Hole
    /\ Len(CallOf(formula).slots[1].operands) = 1
    /\ CallOf(formula).slots[1].operands[1].atom.kind = "Paren"

\* the expressions of the list
ListOf(formula) == CallOf(formula).slots[1].operands[1].atom.items

\* what an expression of the list evaluates to
ItemValue(item) == ArgEval(item).out.v

\* the Collection of the claim for a list of references: the dereferenced
\* values and the references, in source order
CollectionOf(items) ==
    Collection([i \in 1..Len(items) |->
                   ExtractRefValue(ItemValue(items[i]),
                                   Context(position, async, isTest)).val],
               [i \in 1..Len(items) |->
                   Retrieved(ItemValue(items[i]), Context(position, async, isTest))])

\* C19: a parenthesised list (e1, ..., eN) with N >= 2 yields a Collection
\* with exactly N (value, reference) pairs in source order, where every
\* pair's reference is a cell or range reference and its value is that
\* reference's dereferenced value; a list with a non-reference operand is
\* rejected with #VALUE!; parentheses around a single expression yield that
\* expression and no Collection; the Collection's data and refs lists always
\* have equal length.  (Refuted: (1,A1) yields a Collection whose first pair
\* is (1, 1).)
C19_ListIsCollectionOfReferences ==
    (/\ call.f = "parse" /\ IsListCall(call.formula) /\ WasInvoked(call.formula)
     /\ \A i \in 1..Len(ListOf(call.formula)) :
           ~IsFormulaError(ItemValue(ListOf(call.formula)[i]))) =>
        /\ Len(Received) = 1
        /\ Carried(Received[1]).t = "collection" =>
              Len(Carried(Received[1]).data) = Len(Carried(Received[1]).refs)
        /\ IF Len(ListOf(call.formula)) = 1
           THEN /\ Carried(Received[1]).t # "collection"
                /\ Carried(Received[1])
                      = ExtractRefValue(ItemValue(ListOf(call.formula)[1]),
                                        Context(position, async, isTest)).val
           ELSE IF \A i \in 1..Len(ListOf(call.formula)) :
                      IsCellOrRange(ItemValue(ListOf(call.formula)[i]))
           THEN Carried(Received[1]) = CollectionOf(ListOf(call.formula))
           ELSE Carried(Received[1]) = VALUE

----------------------------------------------------------------------------
(* Properties of leading commas, checked under Spec *)

\* how many empty slots an argument list starts with
RECURSIVE LeadingHoles(_)
LeadingHoles(slots) ==
    IF slots = <<>> \/ Head(slots) # Hole THEN 0
    ELSE 1 + LeadingHoles(Tail(slots))

\* how many commas an argument list starts with: one in front of each slot
\* after an empty one (n empty slots and nothing else are n - 1 commas)
LeadingCommas(slots) ==
    IF LeadingHoles(slots) = Len(slots) THEN Len(slots) - 1 ELSE LeadingHoles(slots)

\* C20: in a function call whose argument list starts with k >= 1 commas,
\* the k leading commas count as k omitted leading arguments: the function
\* receives k omitted arguments followed by the written ones, so the first
\* written argument is at position k+1.  (Refuted: the leading commas push
\* nothing, and the first written argument is at position 1.)
C20_LeadingCommasAreOmittedArguments ==
    (/\ call.f \in {"parse", "parseAsync"} /\ IsOneCall(call.formula)
     /\ WasInvoked(call.formula)
     /\ LeadingCommas(CallOf(call.formula).slots) >= 1) =>
        /\ Len(Received) >= LeadingCommas(CallOf(call.formula).slots)
        /\ \A i \in 1..LeadingCommas(CallOf(call.formula).slots) : ~IsGiven(Received[i])
        /\ Written(call.formula) # <<>> =>
              /\ Len(Received) > LeadingCommas(CallOf(call.formula).slots)
              /\ IsGiven(Received[LeadingCommas(CallOf(call.formula).slots) + 1])

----------------------------------------------------------------------------
(* Properties of the suspension points, checked under SpecSuspend *)

\* the awaits of callFunctionAsync, and the one parseAsync waits for the
\* end of the evaluation with
IsCallAwait(site) == site.fn \in {"callFunctionAsync", "parseAsync"}

\* C21: in async mode evaluation suspends only at function calls: every
\* `await` a parseAsync call executes is callFunctionAsync's await of an
\* argument or of the function's result; prefix, postfix and infix
\* operators, reference operators, reference lookups and the final result
\* check execute none
C21_SuspendsAtFunctionCallsOnly ==
    (pc = "parsed" /\ call.f = "parseAsync") =>
        \A i \in 1..Len(made) : IsCallAwait(made[i])

----------------------------------------------------------------------------
(* Properties of the call protocol, checked under Spec *)

\* the sets of function names as C22 lists them
NoDataRetrieveSet == {"ROW", "ROWS", "COLUMN", "COLUMNS", "SUMIF", "INDEX", "AVERAGEIF", "IF"}

ContextSet == HostFunctionsNeedContext \cup {"OFFSET", "INDIRECT", "CHOOSE", "WEBSERVICE"}

\* every argument of the callFunction call is a value or a fulfilled promise
ArgsSettled == \A i \in 1..Len(call.args) : Await(call.args[i]).k = "return"

\* the arguments callFunction was given, awaited
RawArgs == [i \in 1..Len(call.args) |-> Await(call.args[i]).v]

\* the value of an argument read from the host at the engine's position
Dereferenced(raw) == ExtractRefValue(raw, Context(position, async, isTest)).val

\* the ref of an argument as the rules built it; the host lookup has filled
\* in the sheet of the position where the ref names none
RawRef(raw) ==
    IF HasRef(raw) THEN <<WithPositionSheet(raw.ref, position)>> ELSE <<>>

\* the fields of {value, isArray, isRangeRef, isCellRef}
PlainFields == {"t", "shape", "value", "isArray", "isRangeRef", "isCellRef"}

\* what C22 lets a function outside the no-data-retrieve set receive for the
\* argument raw
ShapedAsClaimed(name, got, raw) ==
    /\ got.value = Dereferenced(raw)
    /\ got.isArray = (~HasRef(raw) /\ IsArray(raw))
    /\ IF name \in FunsPreserveRef
       THEN got.shape = "preserve" /\ got.ref = RawRef(raw)
       ELSE /\ DOMAIN got = PlainFields
            /\ got.isRangeRef = IsRangeRef(raw)
            /\ got.isCellRef = IsCellRef(raw)

----------------------------------------------------------------------------
(* Properties of the helpers, checked under SpecHelpers *)

\* how many '-' a list of prefixes holds
RECURSIVE MinusCount(_)
MinusCount(prefixes) ==
    IF prefixes = <<>> THEN 0
    ELSE (IF Head(prefixes) = "-" THEN 1 ELSE 0) + MinusCount(Tail(prefixes))

\* the operand of unaryOp, null counted as 0
SignedOperand == IF IsNullish(call.value) THEN Num(0) ELSE call.value

\* the value that stands for an operand: the first element of an array
Represented(v) == IF IsArray(v) THEN v.a[1][1] ELSE v

\* a text that reads as a number
IsNumericText(v) == v.t = "string" /\ Len(v.s) > 0 /\ ~IsNaN(StrToNumber(v.s))

\* C23: Prefix.unaryOp folds any sequence of '+' and '-' into one sign given
\* by the parity of the '-' count; a null operand counts as 0; with a
\* positive sign the operand is returned unchanged whatever its type; with a
\* negative sign a number, boolean or numeric text is negated as a number, an
\* array operand is represented by its first element, and text that cannot
\* be coerced to a number gives #VALUE! (never a NaN number).  (The empty text,
\* which Number() reads as 0 and acceptNumber refuses, is left out.)
C23_UnaryOpSign ==
    (pc = "done" /\ call.f = "unaryOp") =>
        IF MinusCount(call.prefixes) % 2 = 0 THEN res = Return(SignedOperand)
        ELSE /\ Represented(SignedOperand).t = "number" =>
                    res = Return(NumNeg(Represented(SignedOperand)))
             /\ Represented(SignedOperand).t = "boolean" =>
                    res = Return(NumNeg(Num(IF Represented(SignedOperand).b THEN 1 ELSE 0)))
             /\ IsNumericText(Represented(SignedOperand)) =>
                    res = Return(NumNeg(StrToNumber(Represented(SignedOperand).s)))
             /\ (Represented(SignedOperand).t = "string"
                 /\ Len(Represented(SignedOperand).s) > 0
                 /\ ~IsNumericText(Represented(SignedOperand))) =>
                    res = Return(VALUE)

\* what C24 lets acceptNumber give for a number, a boolean or a text
ScalarAsNumber(v, allowBoolean) ==
    CASE v.t = "number" -> Return(v)
      [] v.t = "boolean" ->
           IF allowBoolean THEN Return(Num(IF v.b THEN 1 ELSE 0)) ELSE Throw(VALUE)
      [] v.t = "string" ->
           IF IsNumericText(v) THEN Return(StrToNumber(v.s)) ELSE Throw(VALUE)

\* an array of one row and one column
IsOneByOne(v) == Len(v.a) = 1 /\ Len(v.a[1]) = 1

\* C24: acceptNumber returns a number or raises #VALUE!: a number is returned
\* as is; true gives 1 and false 0, or #VALUE! when booleans are disabled;
\* decimal text is parsed and empty or non-numeric text gives #VALUE!; an
\* array operand with isArray = true is represented by its element [0][0];
\* an array operand with isArray = false (a dereferenced range) is accepted
\* only when it is 1x1 and gives #VALUE! for every other shape.  (An element
\* [0][0] that is a boolean may be read with booleans enabled.)
C24_AcceptNumber ==
    (pc = "done" /\ call.f = "acceptNumber"
       /\ call.obj.t \in {"number", "boolean", "string", "array"}) =>
        IF ~IsArray(call.obj) THEN res = ScalarAsNumber(call.obj, call.allowBoolean)
        ELSE IF call.isArray \/ IsOneByOne(call.obj)
        THEN res \in {ScalarAsNumber(call.obj.a[1][1], call.allowBoolean),
                      ScalarAsNumber(call.obj.a[1][1], TRUE)}
        ELSE res = Throw(VALUE)

\* the value accept is given is a FormulaError or an argument object around
\* one
CarriesError(param) ==
    IF IsNullish(param) THEN FALSE
    ELSE IF IsFormulaError(param) THEN TRUE
    ELSE param.t = "arg" /\ IsFormulaError(param.value)

\* the FormulaError the value is or wraps
ErrorCarried(param) == IF IsFormulaError(param) THEN param ELSE param.value

\* C25: accept(value, type, default) re-raises the error whenever the
\* supplied value is (or wraps) a FormulaError, for every requested target
\* type including none; and when the value is missing it raises #N/A if no
\* default is given and returns the default otherwise.
C25_AcceptReraisesErrors ==
    (pc = "done" /\ call.f = "accept") =>
        /\ CarriesError(call.param) => res = Throw(ErrorCarried(call.param))
        /\ IsNullish(call.param) =>
              IF call.defValue = <<>>
              THEN res.k = "throw" /\ IsFormulaError(res.v) /\ res.v.code = "#N/A"
              ELSE res = Return(call.defValue[1])

----------------------------------------------------------------------------
(* Properties of parse and parseAsync on texts with a syntax error, checked *)
(* under Spec                                                               *)

\* how the last parse ended: what parse returned or threw, how the promise
\* of parseAsync settled
ParseOutcome == IF call.f = "parseAsync" THEN Await(res.v) ELSE res

\* C26: whenever the parser has recorded a syntax error for the input,
\* including tokens left unconsumed after a complete expression (e.g. a
\* stray ')' at the end), parse reports #ERROR! for the syntax error; it
\* never returns the value or the FormulaError computed from the well-formed
\* prefix of the input.
C26_SyntaxErrorIsReported ==
    (pc = "parsed" /\ call.f \in {"parse", "parseAsync"} /\ call.formula.text # ""
       /\ call.formula.lexErrors = <<>> /\ call.formula.errors # <<>>) =>
        ParseOutcome.v = FormatChevrotainError(call.formula.errors[1], call.formula.text)

\* the formula is one cell reference, with a sheet name or without
IsOneCell(formula) ==
    /\ formula.tree # <<>> /\ formula.errors = <<>> /\ formula.lexErrors = <<>>
    /\ \/ formula.tree[1] \in {Top(CellA1), Top(CellD4)}
       \/ formula.tree[1] \in {Top(SheetNode("Sheet2", CellA1)),
                               Top(SheetNode("Sheet2", CellD4))}

\* the cell the formula refers to
CellOf(formula) ==
    IF formula.tree[1].operands[1].atom.kind = "Sheet"
    THEN [ParseCellAddress(formula.tree[1].operands[1].atom.item.letters,
                           formula.tree[1].operands[1].atom.item.digits).ref
            EXCEPT !.sheet = formula.tree[1].operands[1].atom.name]
    ELSE ParseCellAddress(formula.tree[1].operands[1].atom.letters,
                          formula.tree[1].operands[1].atom.digits).ref

\* what the host's onCell returns for that cell
HostValue(formula, pos) == OnCell(WithPositionSheet(CellOf(formula), pos))

\* C27: when the top-level result of a formula is a reference to a single
\* cell and the host's onCell returns a FormulaError e for that cell, parse
\* returns e itself, both with allowReturnArray = false and with
\* allowReturnArray = true; the error is not replaced by another error code.
C27_CellErrorIsReturned ==
    (pc = "parsed" /\ call.f = "parse" /\ IsOneCell(call.formula)
       /\ IsFormulaError(HostValue(call.formula, call.position))) =>
        res = Return(HostValue(call.formula, call.position))

----------------------------------------------------------------------------
(* Properties of the dependency list across sheets, checked under SpecDep *)

\* the list holds the ref, or a range of the ref's sheet that contains the
\* cell
IsListed(ref) ==
    \E i \in 1..Len(made) :
        \/ made[i] = ref
        \/ IsSome(ref.row) /\ IsSome(made[i].from) /\ LiesInside(ref, made[i])

\* C28: whenever dependency evaluation looks up a cell or range R with
\* defined row and column bounds on sheet S (S being the reference's own
\* sheet, or position.sheet when it has none), the list returned by
\* DepParser.parse contains an entry on sheet S that equals R or, for a cell,
\* a range entry on sheet S that contains it; a reference is never left out
\* because an entry with the same coordinates on a different sheet was
\* recorded earlier.
C28_DependencyOnItsSheet ==
    (call.f = "depParse" /\ res.k = "return") =>
        \A k \in 1..Len(invoked) :
            (IsSome(invoked[k].ref.row) \/ IsSome(invoked[k].ref.from)) =>
                IsListed(invoked[k].ref)

----------------------------------------------------------------------------
(* Properties of the host's objects, checked under SpecNames *)

\* C29: the engine never writes to a reference object obtained from the
\* host's onVariable callback: after any sequence of parse calls the object
\* the host returned has the same sheet, row, col, from and to as before, so
\* resolving the same defined name in a later parse from another position (or
\* behind another sheet prefix) does not depend on earlier parses.
C29_HostRefsAreNotWritten ==
    /\ made = HostNames
    /\ call.f = "parse" =>
          res = ParseNamed(call.formula, call.position, call.allowReturnArray, HostNames)


\* C30: depParser.parse(text, position, true) with a non-empty text never
\* throws, whatever fails (lexing, syntax, evaluation): it returns the
\* references recorded before the failure, and these are references of the
\* current text only, none of an earlier parse on the same DepParser
C30_IgnoreErrorNeverThrows ==
    (call.f = "depParse" /\ call.ignoreError /\ call.formula.text # "") =>
        /\ res.k = "return"
        /\ res.v = made
        /\ made = DepParse(call.formula, call.position, TRUE, Tracked(<<>>, <<>>)).fx.data
====
